---- MODULE Spec2Model ----
(***************************************************************************)
(* Time-advancement engine of IncNavierStokes                              *)
(* (solvers/HomogeneousBloodFlowSolver/EquationSystems/IncNavierStokes.cpp)*)
(*                                                                         *)
(* The model follows one solver instance on one rank: v_InitObject, then   *)
(* one or more invocations of AdvanceInTime, each a loop of outer steps    *)
(* whose stages are separate actions.  Function-local statics of the code  *)
(* (nchk, previousL2) are variables that survive from one invocation to    *)
(* the next.  Time is counted in units of m_timestep; field coefficients   *)
(* are small integers.                                                     *)
(***************************************************************************)
EXTENDS Integers, Sequences, FiniteSets

\* ------------------------------------------------------------------ bounds
MaxSteps == 4
MaxInterval == 3
MaxFilters == 2
MaxRuns == 2
NumCoeffs == 1
MaxCoeff == 1
MaxTol == 4
MaxCalls == 4
MaxIntSteps == 2
MaxTicks == 3
MaxMinSubSteps == 2
MaxSaves == 3
MaxVel == 1
NumElmts == 2
MaxModes == 3
MaxCfl == 2
MaxFields == 2
eEquationTypeSize == 3
MaxViscoTypes == 2
MaxRanks == 3
MaxLocal == 1
MaxRankSteps == 3
MaxAdvVel == 3

\* ------------------------------------------------------------------ fields
\* m_velocity: the velocity variables found among the field names
Velocity == {"u", "v"}
\* the viscoelastic stress fields m_fields[i + m_spacedim]
Stress == {"T"}
Fields == Velocity \cup Stress
\* the fields wrapped by `fields` (i < m_nConvectiveFields)
Convective == Velocity

HomogeneousTypes == {"eNotHomogeneous", "eHomogeneous1D"}
EquationTypes == {"eUnsteadyNavierStokes", "eUnsteadyViscoElastic"}

\* coefficient arrays of all fields
CoeffStates == [Fields -> [1..NumCoeffs -> 0..MaxCoeff]]
\* the coefficient states the step loop is taken to meet at a steady-state
\* check: every coefficient 0, or every coefficient MaxCoeff
IntegratorStates == {[f \in Fields |-> [k \in 1..NumCoeffs |-> v]] : v \in {0, MaxCoeff}}

VARIABLES
    \* configuration, fixed after Init
    nsteps, m_checksteps, m_energysteps, m_steadyStateSteps, m_steadyStateTol,
    m_subSteppingScheme, m_equationType, m_HomogeneousType, m_filters,
    \* program state
    pc, run, n, m_time, nchk, previousL2, returnval,
    m_mdlFile, waveSpace, physState, exit,
    \* observations
    trace, chkLog, chkAtEntry, mdlLog, filterLog, finLog, calls, lastL2,
    \* configuration of the sub-stepping engine and of the stable-step estimate
    m_intSteps, m_timestep, minsubsteps, m_cflSafetyFactor, m_expdim, ExpOrder,
    \* SubStepAdvance: the static ncalls, the solution vector of
    \* m_integrationSoln, and the locals of the last call
    ncalls, solVector, nint, nsubsteps, dt, stableDt, subLog,
    \* the velocity history: the array handles of m_previousVelFields and the
    \* storage they refer to; the snapshots saved in the run; the last extrapolation
    m_previousVelFields, arrays, saves, ExtVel, toff,
    \* the last stable-step estimate
    stdVelocity, TimeStep, cflStatus,
    \* physical and coefficient arrays of the viscoelastic stress fields
    stress,
    \* the session v_InitObject reads: the variable names of the fields, the
    \* EQTYPE and VISELTYPE tags (the index of the string they match, -1 for a
    \* string that matches none) and the values of the enumerators
    fieldVariables, m_spacedim, EQTYPE, VISELTYPE,
    eNoEquationType, eUnsteadyViscoElastic, eEquationViscoElasticTypeSize,
    \* the AdvectiveType tag of the session, "none" when it is not defined
    AdvectiveType,
    \* what v_InitObject leaves: m_velocity, the loop variable i and the assertion
    \* that failed
    m_velocity, tagIndex, setupStatus,
    \* the name the advection operator was created with, "unset" before that
    m_advObject,
    \* the column communicator: its size, the number of modes of a rank
    \* (m_npointsZ/nproc/2), and whether Send returns only once it is received
    nproc, locsize, rendezvous,
    \* every rank's place in AdvanceInTime, its n and its static previousL2; the
    \* locals i and m of rank 0 in WriteModalEnergy; the messages sent to rank 0
    \* and not yet received, per sender
    rankPc, rankN, rankPreviousL2, recvFrom, modeIndex, mailbox,
    \* the lines rank 0 wrote, and the Send and Recv calls that were made
    mdlRecords, sends, recvs,
    \* the last evaluation of SubStepAdvection: its inputs, the extrapolated
    \* velocity it used and the right-hand side it returned
    advLast,
    \* the array GetStdVelocity was last called on
    velfields

config == <<nsteps, m_checksteps, m_energysteps, m_steadyStateSteps, m_steadyStateTol,
            m_subSteppingScheme, m_equationType, m_HomogeneousType, m_filters>>
fieldState == <<waveSpace, physState>>
steady == <<previousL2, returnval, calls, lastL2>>
logs == <<trace, chkLog, chkAtEntry, mdlLog, filterLog, finLog>>
engineConfig == <<m_intSteps, m_timestep, minsubsteps, m_cflSafetyFactor, m_expdim, ExpOrder>>
subStep == <<ncalls, solVector, nint, nsubsteps, dt, stableDt, subLog>>
history == <<m_previousVelFields, arrays, saves, ExtVel, toff>>
cfl == <<stdVelocity, TimeStep, cflStatus>>
engine == <<engineConfig, subStep, history, cfl>>
session == <<fieldVariables, m_spacedim, EQTYPE, VISELTYPE,
             eNoEquationType, eUnsteadyViscoElastic, eEquationViscoElasticTypeSize,
             AdvectiveType>>
setup == <<m_velocity, tagIndex, setupStatus, m_advObject>>
mpiConfig == <<nproc, locsize, rendezvous>>
ranks == <<rankPc, rankN, rankPreviousL2, recvFrom, modeIndex, mailbox,
           mdlRecords, sends, recvs>>
vars == <<config, pc, run, n, m_time, nchk, m_mdlFile, exit,
          fieldState, steady, logs, engine, stress, session, setup,
          mpiConfig, ranks, advLast, velfields>>

\* ------------------------------------------------------------------ helpers
Abs(x) == IF x < 0 THEN -x ELSE x

RECURSIVE SumSeq(_)
SumSeq(s) == IF s = <<>> THEN 0 ELSE Head(s) + SumSeq(Tail(s))

\* Vmath::Dot(ncoeffs, a, 1, b, 1)
Dot(a, b) == SumSeq([k \in 1..NumCoeffs |-> a[k] * b[k]])

RECURSIVE SumOver(_, _)
SumOver(S, c) ==
    IF S = {} THEN 0
    ELSE LET f == CHOOSE x \in S : TRUE
         IN Dot(c[f], c[f]) + SumOver(S \ {f}, c)

\* the discrete L2 sum of CalcSteadyState over every field of m_fields
L2Sum(c) == SumOver(Fields, c)

\* variant: previousL2 is kept when the call reports convergence
CalcSteadyState_KeepsOnConverged(c, prev, tol) ==
    LET L2 == L2Sum(c)
        conv == Abs(L2 - prev) < NumCoeffs * tol
    IN [returnval |-> conv,
        previousL2 |-> IF conv THEN prev ELSE L2]

\* CalcSteadyState: the value returned and the new value of the static previousL2
CalcSteadyState(c, prev, tol) ==
    LET L2 == L2Sum(c)
    IN [returnval |-> Abs(L2 - prev) < NumCoeffs * tol,
        previousL2 |-> L2]

\* variant: the loop walks m_filters from the back
FilterCalls_Reversed(kind, time) ==
    [i \in 1..m_filters |-> <<kind, m_filters + 1 - i, time>>]

\* the filter hooks called by one loop over m_filters, in container order, each
\* with the time it is handed
FilterCalls(kind, time) == [i \in 1..m_filters |-> <<kind, i, time>>]

Stamp(stage) == Append(trace, <<n, stage>>)

\* variant: the checkpoint dump placed before the energy record
Stages_CheckBeforeEnergy == <<"substep", "advance", "visco", "primary", "clock",
                              "check", "energy", "steady", "filter">>

\* the statements of the loop body, in program order
Stages == <<"substep", "advance", "visco", "primary", "clock",
            "energy", "check", "steady", "filter">>

\* the statement reached after statement p; the loop test after the last one
After(p) ==
    LET i == CHOOSE j \in 1..Len(Stages) : Stages[j] = p
    IN IF i = Len(Stages) THEN "loop" ELSE Stages[i + 1]

\* variant: the loop runs while n <= nsteps
LoopCond_OffByOne(k) == k <= nsteps

\* for(n = 0; n < nsteps; ++n): the loop condition
LoopCond(k) == k < nsteps

\* variant: the energy test also asks for n # 0, like the checkpoint test
EnergyDue_SkipsStepZero(k) == m_energysteps # 0 /\ k # 0 /\ (k + 1) % m_energysteps = 0

\* if(m_energysteps && !((n+1)%m_energysteps))
EnergyDue(k) == m_energysteps # 0 /\ (k + 1) % m_energysteps = 0

\* variant: the checkpoint test without its n # 0 conjunct
CheckpointDue_AtStepZero(k) == m_checksteps # 0 /\ (k + 1) % m_checksteps = 0

\* if(m_checksteps && n && !((n+1)%m_checksteps))
CheckpointDue(k) == m_checksteps # 0 /\ k # 0 /\ (k + 1) % m_checksteps = 0

\* variant: the steady-state test on n instead of n+1
SteadyDue_OnStepIndex(k) == m_steadyStateSteps # 0 /\ k # 0 /\ k % m_steadyStateSteps = 0

\* if(m_steadyStateSteps && n && !((n+1)%m_steadyStateSteps))
SteadyDue(k) == m_steadyStateSteps # 0 /\ k # 0 /\ (k + 1) % m_steadyStateSteps = 0

\* variant: Checkpoint_Output(nchk++), the number taken before the increment
CheckpointNumber_PostIncrement(c) == c

\* nchk++; Checkpoint_Output(nchk): the number handed to the checkpoint sink
CheckpointNumber(c) == c + 1

\* variant: the log is opened whatever m_energysteps is
OpensLog_Always == TRUE

\* if (m_energysteps && m_comm->GetRank() == 0) m_mdlFile.open(...)
OpensLog == m_energysteps # 0

\* if (m_energysteps) m_mdlFile.close()
ClosesLog == m_energysteps # 0

\* variant: the log is closed before the fields are transformed back
FinaliseOrder_CloseFirst == <<"close", "finalise", "filterFinalise">>

\* the statements behind the step loop, in program order: the back-transform or
\* write-back of the fields, the close of the log, the Finalise loop
FinaliseOrder == <<"finalise", "close", "filterFinalise">>

\* the statement reached after statement p of the finalisation; AdvanceInTime
\* returns after the last one
FinaliseAfter(p) ==
    LET i == CHOOSE j \in 1..Len(FinaliseOrder) : FinaliseOrder[j] = p
    IN IF i = Len(FinaliseOrder) THEN "idle" ELSE FinaliseOrder[i + 1]

\* variant: a return in place of the break
BreakTarget_Return == "idle"

\* where the break of the steady-state test leaves the loop to
BreakTarget == FinaliseOrder[1]

\* variant: the clock advanced by one unit of time whatever the step size
NextTime_UnitStep(t) == t + 1

\* m_time += m_timestep: the clock after one outer step
NextTime(t) == t + m_timestep

\* fields_viscoelasticstress = TimeIntegrate(...): the array the integrator
\* returns for the stress fields in step k of invocation r
StressResult(r, k) == <<r, k>>

\* FwdTrans_IterPerExp: the coefficients of the projection of physical values x
FwdTrans_IterPerExp(x) == <<"FwdTrans", x>>

\* variant: the write-back leaves the physical values flagged stale
StressPhysState_Stale == FALSE

\* m_fields[i+m_spacedim]->SetPhysState(true)
StressPhysState == TRUE

\* ------------------------------------------------------------------ exact arithmetic
\* NekDouble values are followed as exact fractions <<numerator, denominator>>
\* with a denominator >= 0; <<1, 0>> is the +infinity a positive number
\* divided by zero gives
Min(a, b) == IF a < b THEN a ELSE b
Max(a, b) == IF a < b THEN b ELSE a

RECURSIVE GCD(_, _)
GCD(a, b) == IF b = 0 THEN a ELSE GCD(b, a % b)

Rat(p, q) ==
    IF q = 0 THEN <<1, 0>>
    ELSE LET g == GCD(Abs(p), Abs(q))
             sgn == IF q < 0 THEN -1 ELSE 1
         IN <<(sgn * p) \div g, (sgn * q) \div g>>

RatAdd(a, b) ==
    LET m == (a[2] * b[2]) \div GCD(a[2], b[2])
    IN Rat(a[1] * (m \div a[2]) + b[1] * (m \div b[2]), m)

RatMul(a, b) == Rat(a[1] * b[1], a[2] * b[2])

\* a < b
RatLess(a, b) == a[1] * b[2] < b[1] * a[2]

\* ------------------------------------------------------------------ sub-stepping engine
\* the velocity variables, in the order of m_velocity
velids == <<"u", "v">>
nvel == Len(velids)

\* the values a velocity component takes at the one quadrature point followed
VelValues == 0..MaxVel

\* nblocks = m_previousVelFields.num_elements()/nvel; the array is allocated
\* outside this file, with one block per integrator step
nblocks == m_intSteps

\* the values GetSubstepTimeStep hands to SubStepAdvance: a positive number of
\* ticks, or +infinity for a velocity field that is zero everywhere
StableSteps == {<<p, 1>> : p \in (1..MaxTicks) \cup {3, 20}} \cup {<<1, 0>>}
\* the outer step sizes m_timestep, in ticks
TimeSteps == (1..MaxTicks) \cup {10}
\* the values of the MinSubSteps parameter
MinSubSteps == (0..MaxMinSubSteps) \cup {5}

\* variant: every slot is advanced from the first call on
NInt_Always(c) == m_intSteps

\* int nint = min(ncalls++, m_intSteps), for ncalls = c
NInt(c) == Min(c, m_intSteps)

\* variant: the count rounded up, (int)ceil(m_timestep/dt)
SubStepCount_Ceil(T, d) ==
    IF RatLess(d, <<T, 1>>) THEN (T * d[2] + d[1] - 1) \div d[1] ELSE 1

\* nsubsteps = (m_timestep > dt)? ((int)(m_timestep/dt)+1):1
SubStepCount(T, d) ==
    IF RatLess(d, <<T, 1>>) THEN ((T * d[2]) \div d[1]) + 1 ELSE 1

\* variant: the stable step is not consulted
NSubSteps_MinimumOnly(T, d, minsub) == Max(minsub, 1)

\* nsubsteps = max(minsubsteps, nsubsteps)
NSubSteps(T, d, minsub) == Max(minsub, SubStepCount(T, d))

\* dt = m_timestep/nsubsteps
SubStepSize(T, k) == Rat(T, k)

\* one TimeIntegrate(dt, SubIntegrationSoln, ...) of the inner scheme: the state
\* of the slot moves on by h
InnerStep(y, h) == [t |-> RatAdd(y.t, h), steps |-> y.steps + 1]

\* variant: for(n = 0; n <= nsubsteps; ++n)
RECURSIVE SubCycle_OneMore(_, _, _)
SubCycle_OneMore(y, k, h) ==
    IF k < 0 THEN y ELSE SubCycle_OneMore(InnerStep(y, h), k - 1, h)

\* for(n = 0; n < nsubsteps; ++n) fields = TimeIntegrate(dt, ...)
RECURSIVE SubCycle(_, _, _)
SubCycle(y, k, h) ==
    IF k <= 0 THEN y ELSE SubCycle(InnerStep(y, h), k - 1, h)

\* the physical values of the velocity fields at a save: the second component
\* mirrors the first, so that the two components differ
SavedFields == {[c \in Velocity |-> IF c = velids[1] THEN a ELSE MaxVel - a] : a \in VelValues}

\* variant: the handles are not shifted, block 0 is reused at every save
RotateSource_NoShift(i) == i

\* the block whose array handle moves into block i:
\* save = [nblocks-1]; [i] = [i-1] for i = nblocks-1 .. 1; [0] = save
RotateSource(i) == IF i = 0 THEN nblocks - 1 ELSE i - 1

\* variant: without the temporary `save`, block 0 keeps its handle and block 1
\* gets a copy of it
Rotate_NoSave(h) ==
    [b \in DOMAIN h |-> h[(IF b \div nvel = 0 THEN 0 ELSE (b \div nvel) - 1) * nvel + (b % nvel)]]

\* the rotation of the handles of every velocity component
Rotate(h) == [b \in DOMAIN h |-> h[RotateSource(b \div nvel) * nvel + (b % nvel)]]

\* Vmath::Vcopy calls applied in program order, each <<array, values>>
RECURSIVE WriteAll(_, _)
WriteAll(a, w) ==
    IF w = <<>> THEN a
    ELSE WriteAll([a EXCEPT ![Head(w)[1]] = Head(w)[2]], Tail(w))

\* for(i = 0; i < nvel; ++i) Vcopy(GetPhys() -> m_previousVelFields[i])
PutWrites(h, v) == [i \in 1..nvel |-> <<h[i - 1], v[velids[i]]>>]

\* variant: the levels are initialised at the second step
FirstSave_StepOne(nstep) == nstep = 1

\* if(nstep == 0)
FirstSave(nstep) == nstep = 0

\* for(n < nvel) for(i = 1; i < nblocks; ++i) Vcopy(GetPhys() -> m_previousVelFields[i*nvel+n])
InitWrites(h, v) ==
    [k \in 1..(nvel * (nblocks - 1)) |->
        LET c == (k - 1) \div (nblocks - 1)
            i == ((k - 1) % (nblocks - 1)) + 1
        IN <<h[i * nvel + c], v[velids[c + 1]]>>]

\* int ord = m_intSteps
ord == m_intSteps

\* the numerator and the denominator of l[i]: the products over j = 0..ord, j # i,
\* of (j*m_timestep+toff) and of (j*m_timestep-i*m_timestep)
RECURSIVE LagrangeNum(_, _, _)
LagrangeNum(i, j, tau) ==
    IF j > ord THEN 1
    ELSE (IF j = i THEN 1 ELSE j * m_timestep + tau) * LagrangeNum(i, j + 1, tau)

RECURSIVE LagrangeDen(_, _)
LagrangeDen(i, j) ==
    IF j > ord THEN 1
    ELSE (IF j = i THEN 1 ELSE j * m_timestep - i * m_timestep) * LagrangeDen(i, j + 1)

\* Array<OneD, NekDouble> l: l[i] *= (j*m_timestep+toff)/(j*m_timestep-i*m_timestep)
Lagrange(tau) == [i \in 0..ord |-> Rat(LagrangeNum(i, 0, tau), LagrangeDen(i, 0))]

\* m_previousVelFields[j*nvel+i][0]; an index past the end of the array reads
\* whatever the memory behind it holds
ReadBlock(j, i, g) ==
    IF j * nvel + i \in DOMAIN m_previousVelFields
    THEN arrays[m_previousVelFields[j * nvel + i]]
    ELSE g

\* the entries of m_previousVelFields the loops of lines 1010-1019 read: block 0
\* by Smul and the blocks j = 1..ord by Daxpy, for every component i < nvel
ReadIndices == {j * nvel + i : j \in 0..ord, i \in 0..(nvel - 1)}

\* the entries of l the loops of lines 998-1008 and 1010-1019 touch
WeightIndices == 0..ord

RECURSIVE RatSum(_, _)
RatSum(x, j) == IF j > Len(x) THEN <<0, 1>> ELSE RatAdd(x[j], RatSum(x, j + 1))

\* Smul(l[0], block 0) and Daxpy(l[j], block j) for j = 1..ord
Extrapolate(i, l, g) ==
    RatSum([j \in 1..(ord + 1) |-> RatMul(l[j - 1], <<ReadBlock(j - 1, i, g), 1>>)], 1)

\* ------------------------------------------------------------------ stable-step estimate
\* x / y
RatDiv(x, y) == Rat(x[1] * y[2], x[2] * y[1])

\* sqrt, on the perfect squares the velocity inputs are chosen to give
Isqrt(x) == CHOOSE r \in 0..x : r * r <= x /\ (r + 1) * (r + 1) > x

\* int n_points = m_fields[0]->GetExp(el)->GetTotPoints(): one quadrature point
\* in every element
n_points == 1
nTotQuadPoints == NumElmts * n_points

\* the number of velocity components handed to GetStdVelocity
VelComponents == IF m_expdim = 3 THEN 3 ELSE 2

\* the velocity vectors at a quadrature point whose magnitude is a whole number
ExactVectors(d) ==
    {v \in [1..d -> VelValues] :
        LET sq == SumSeq([k \in 1..d |-> v[k] * v[k]])
        IN Isqrt(sq) * Isqrt(sq) = sq}

\* velfields: per quadrature point 0..nTotQuadPoints-1 the velocity vector
VelocityInputs == [0..(nTotQuadPoints - 1) -> ExactVectors(VelComponents)]

\* gmat[k][0] of a regular element: the metric of element el is el times the identity
gmat(el, row, col) == IF row = col THEN el ELSE 0

\* stdVelocity[row][i] of element el at its local point i, which the loops read
\* at index i of inarray
StdVelocityAt(inarray, el, i, row) ==
    SumSeq([col \in 1..Len(inarray[i]) |-> gmat(el, row, col) * inarray[i][col]])

\* pntVelocity = sqrt(stdVelocity[0][i]^2 + stdVelocity[1][i]^2 (+ stdVelocity[2][i]^2))
PntVelocity(inarray, el, i) ==
    LET stdVelocityAt == [row \in 1..Len(inarray[i]) |-> StdVelocityAt(inarray, el, i, row)]
    IN Isqrt(SumSeq([row \in 1..Len(inarray[i]) |-> stdVelocityAt[row] * stdVelocityAt[row]]))

\* stdV[el]: starts at 0.0 and is raised by every pntVelocity above it
RECURSIVE StdV(_, _, _, _)
StdV(inarray, el, i, best) ==
    IF i >= n_points THEN best
    ELSE LET pntVelocity == PntVelocity(inarray, el, i)
         IN StdV(inarray, el, i + 1, IF pntVelocity > best THEN pntVelocity ELSE best)

\* variant: the assertion lets one dimension through
DimensionOK_AllowsOne(d) == d >= 1

\* ASSERTL0(m_expdim >= 2, "Method not implemented for 1D")
DimensionOK(d) == d >= 2

\* GetStdVelocity: the failed assertion, or the array stdV
GetStdVelocity(inarray) ==
    IF ~DimensionOK(m_expdim) THEN [status |-> "abort", stdV |-> <<>>]
    ELSE [status |-> "ok", stdV |-> [el \in 1..NumElmts |-> StdV(inarray, el, 0, 0)]]

\* const NekDouble cLambda = 0.2
cLambda == <<1, 5>>

\* tstep[el] = m_cflSafetyFactor / (stdVelocity[el] * cLambda * (ExpOrder[el]-1) * (ExpOrder[el]-1))
tstep(stdV) ==
    [el \in 1..NumElmts |->
        RatDiv(<<m_cflSafetyFactor, 1>>,
               RatMul(RatMul(<<stdV[el], 1>>, cLambda),
                      <<(ExpOrder[el] - 1) * (ExpOrder[el] - 1), 1>>))]

RECURSIVE VminFrom(_, _, _)
VminFrom(x, i, best) ==
    IF i > Len(x) THEN best
    ELSE VminFrom(x, i + 1, IF RatLess(x[i], best) THEN x[i] ELSE best)

\* variant: the largest entry is returned
Vmin_Largest(x) ==
    CHOOSE y \in {x[i] : i \in 1..Len(x)} : \A i \in 1..Len(x) : ~RatLess(y, x[i])

\* Vmath::Vmin(n_element, tstep, 1)
Vmin(x) == VminFrom(x, 2, x[1])

\* one rank on its own
RanksOff ==
    /\ nproc = 1
    /\ locsize = 1
    /\ rendezvous = FALSE

\* a session with the fields u, v, p in two dimensions, the Navier-Stokes tag and
\* no viscoelastic tag
SessionOff ==
    /\ fieldVariables = <<"u", "v", "p">>
    /\ m_spacedim = 2
    /\ eNoEquationType = 0
    /\ eUnsteadyViscoElastic = eEquationTypeSize - 1
    /\ eEquationViscoElasticTypeSize = MaxViscoTypes
    /\ EQTYPE = 1
    /\ VISELTYPE = -1
    /\ AdvectiveType = "none"

\* ------------------------------------------------------------------ Init
\* the step size is the unit of time; the data of the sub-stepping engine and of
\* the stable-step estimate are not followed
EngineOff ==
    /\ m_intSteps = 1
    /\ m_timestep = 1
    /\ minsubsteps = 0
    /\ m_cflSafetyFactor = 1
    /\ m_expdim = 2
    /\ ExpOrder = [e \in 1..NumElmts |-> 2]
    /\ SessionOff
    /\ RanksOff

\* the settings of the step loop with every periodic stage off
StagesOff ==
    /\ nsteps = 0
    /\ m_checksteps = 0
    /\ m_energysteps = 0
    /\ m_steadyStateSteps = 0
    /\ m_equationType = "eUnsteadyNavierStokes"
    /\ m_HomogeneousType = "eNotHomogeneous"
    /\ m_filters = 0
    /\ m_steadyStateTol = 1

LoopOff == StagesOff /\ SessionOff /\ RanksOff

\* every combination of the optional stages, each periodic stage off or run at
\* every step
ConfigFeatures ==
    /\ nsteps \in 0..MaxSteps
    /\ m_checksteps \in {0, 1}
    /\ m_energysteps \in {0, 1}
    /\ m_steadyStateSteps \in {0, 1}
    /\ m_subSteppingScheme \in BOOLEAN
    /\ m_equationType \in EquationTypes
    /\ m_HomogeneousType \in HomogeneousTypes
    /\ m_filters \in 0..MaxFilters
    /\ m_steadyStateTol = 1
    /\ EngineOff

\* every combination of the three intervals, on the plain Navier-Stokes loop
ConfigPeriodic ==
    /\ nsteps \in 0..MaxSteps
    /\ m_checksteps \in 0..MaxInterval
    /\ m_energysteps \in 0..MaxInterval
    /\ m_steadyStateSteps \in 0..MaxInterval
    /\ m_subSteppingScheme = FALSE
    /\ m_equationType = "eUnsteadyNavierStokes"
    /\ m_HomogeneousType \in HomogeneousTypes
    /\ m_filters = 0
    /\ m_steadyStateTol = 1
    /\ EngineOff

\* the end-to-end runs of the specification: 10 outer steps, sub-stepping
\* disabled, checkInterval 5, energyInterval 0, steadyInterval 0 or 3
ConfigEndToEnd ==
    /\ nsteps = 10
    /\ m_checksteps = 5
    /\ m_energysteps = 0
    /\ m_steadyStateSteps \in {0, 3}
    /\ m_subSteppingScheme = FALSE
    /\ m_equationType = "eUnsteadyNavierStokes"
    /\ m_HomogeneousType \in HomogeneousTypes
    /\ m_filters \in {0, MaxFilters}
    /\ m_steadyStateTol = 1
    /\ EngineOff

\* the configurations of the step loop that are explored
ConfigBounded == ConfigFeatures \/ ConfigPeriodic \/ ConfigEndToEnd

\* the configurations of the termination check: every step count, steady-state
\* interval and sub-stepping choice, the other periodic stages off or at every
\* step, every filter registered
ConfigLive ==
    /\ nsteps \in 0..MaxSteps
    /\ m_checksteps \in {0, 1}
    /\ m_energysteps \in {0, 1}
    /\ m_steadyStateSteps \in 0..MaxInterval
    /\ m_subSteppingScheme \in BOOLEAN
    /\ m_equationType \in EquationTypes
    /\ m_HomogeneousType \in HomogeneousTypes
    /\ m_filters = MaxFilters
    /\ m_steadyStateTol = 1
    /\ EngineOff

\* the configurations under which CalcSteadyState is called on its own: any
\* tolerance, no step loop
ConfigSteady ==
    /\ nsteps = 0
    /\ m_checksteps = 0
    /\ m_energysteps = 0
    /\ m_steadyStateSteps = 0
    /\ m_subSteppingScheme = FALSE
    /\ m_equationType = "eUnsteadyNavierStokes"
    /\ m_HomogeneousType = "eNotHomogeneous"
    /\ m_filters = 0
    /\ m_steadyStateTol \in 0..MaxTol
    /\ EngineOff

InitWith(cfg) ==
    /\ cfg
    /\ pc = "v_InitObject"
    /\ run = 0
    /\ n = 0
    /\ m_time = 0
    /\ nchk = 0
    /\ previousL2 = 0
    /\ returnval = FALSE
    /\ calls = 0
    /\ lastL2 = 0
    /\ m_mdlFile = "closed"
    /\ waveSpace = [f \in Fields |-> FALSE]
    /\ physState = [f \in Fields |-> TRUE]
    /\ exit = "none"
    /\ trace = <<>>
    /\ chkLog = <<>>
    /\ chkAtEntry = 0
    /\ mdlLog = <<>>
    /\ filterLog = <<>>
    /\ finLog = <<>>
    /\ ncalls = 1
    /\ solVector = [m \in 0..(m_intSteps - 1) |-> <<0, 1>>]
    /\ nint = 0
    /\ nsubsteps = 0
    /\ dt = <<0, 1>>
    /\ stableDt = <<0, 1>>
    /\ subLog = <<>>
    /\ m_previousVelFields = [b \in 0..(nblocks * nvel - 1) |-> b]
    /\ arrays = [a \in 0..(nblocks * nvel - 1) |-> 0]
    /\ saves = <<>>
    /\ ExtVel = <<>>
    /\ toff = 0
    /\ stdVelocity = <<>>
    /\ TimeStep = <<0, 1>>
    /\ cflStatus = "none"
    /\ stress = [f \in Stress |-> [phys |-> <<0, 0>>, coeffs |-> <<"FwdTrans", <<0, 0>>>>]]
    /\ m_velocity = <<>>
    /\ tagIndex = 0
    /\ setupStatus = "none"
    /\ m_advObject = "unset"
    /\ rankPc = [r \in 0..(nproc - 1) |-> "loop"]
    /\ rankN = [r \in 0..(nproc - 1) |-> 0]
    /\ rankPreviousL2 = [r \in 0..(nproc - 1) |-> 0]
    /\ recvFrom = 0
    /\ modeIndex = 0
    /\ mailbox = [r \in 0..(nproc - 1) |-> <<>>]
    /\ mdlRecords = <<>>
    /\ sends = [r \in 0..(nproc - 1) |-> <<>>]
    /\ recvs = <<>>
    /\ advLast = <<>>
    /\ velfields = <<>>

Init == InitWith(ConfigBounded)

\* the configurations under which SubStepAdvance is followed on its own: every
\* integrator order, outer step and minimum sub-step count
ConfigSubStep ==
    /\ LoopOff
    /\ m_subSteppingScheme = TRUE
    /\ m_intSteps \in 1..MaxIntSteps
    /\ m_timestep \in TimeSteps
    /\ minsubsteps \in MinSubSteps
    /\ m_cflSafetyFactor = 1
    /\ m_expdim = 2
    /\ ExpOrder = [e \in 1..NumElmts |-> 2]

\* ------------------------------------------------------------------ setup
\* v_InitObject: the diagnostic log is opened when m_energysteps is set (rank 0)
InitObject ==
    /\ pc = "v_InitObject"
    /\ pc' = "idle"
    /\ IF OpensLog
       THEN m_mdlFile' = "open" /\ mdlLog' = Append(mdlLog, "open")
       ELSE UNCHANGED <<m_mdlFile, mdlLog>>
    /\ UNCHANGED <<config, mpiConfig, ranks, session, setup, advLast, velfields, engine, stress, run, n, m_time, nchk, exit, fieldState, steady,
                   trace, chkLog, chkAtEntry, filterLog, finLog>>

\* ------------------------------------------------------------------ AdvanceInTime
\* entry of AdvanceInTime up to the step loop
AdvanceEntry ==
    /\ pc = "idle"
    /\ run < MaxRuns
    /\ run' = run + 1
    /\ m_time' = m_timestep
    /\ IF m_HomogeneousType = "eHomogeneous1D"
       THEN /\ waveSpace' = [f \in Fields |-> TRUE]
            /\ physState' = [f \in Fields |-> FALSE]
       ELSE UNCHANGED fieldState
    /\ filterLog' = FilterCalls("Initialise", m_time')
    /\ n' = 0
    /\ exit' = "none"
    /\ trace' = <<>>
    /\ chkAtEntry' = Len(chkLog)
    /\ finLog' = <<>>
    /\ pc' = "loop"
    /\ UNCHANGED <<config, mpiConfig, ranks, session, setup, advLast, velfields, engine, stress, nchk, m_mdlFile, steady, chkLog, mdlLog>>

\* for(n = 0; n < nsteps; ++n): the loop test
LoopTest ==
    /\ pc = "loop"
    /\ IF LoopCond(n)
       THEN pc' = Stages[1] /\ exit' = exit
       ELSE pc' = FinaliseOrder[1] /\ exit' = "Completed"
    /\ UNCHANGED <<config, mpiConfig, ranks, session, setup, advLast, velfields, engine, stress, run, n, m_time, nchk, m_mdlFile, fieldState,
                   steady, logs>>

\* if(m_subSteppingScheme) SubStepSaveFields(n)
SubStepSaveFields ==
    /\ pc = "substep"
    /\ IF m_subSteppingScheme
       THEN pc' = After("substep") /\ trace' = Stamp("SubStepSaveFields")
       ELSE pc' = After("advance") /\ trace' = trace
    /\ UNCHANGED <<config, mpiConfig, ranks, session, setup, advLast, velfields, engine, stress, run, n, m_time, nchk, m_mdlFile, exit, fieldState,
                   steady, chkLog, chkAtEntry, mdlLog, filterLog, finLog>>

\* SubStepAdvance(n)
SubStepAdvance ==
    /\ pc = "advance"
    /\ pc' = After("advance")
    /\ trace' = Stamp("SubStepAdvance")
    /\ UNCHANGED <<config, mpiConfig, ranks, session, setup, advLast, velfields, engine, stress, run, n, m_time, nchk, m_mdlFile, exit, fieldState,
                   steady, chkLog, chkAtEntry, mdlLog, filterLog, finLog>>

\* advance of the viscoelastic fields and their write-back
AdvanceViscoElastic ==
    /\ pc = "visco"
    /\ pc' = After("visco")
    /\ IF m_equationType = "eUnsteadyViscoElastic"
       THEN /\ trace' = Stamp("ViscoElastic")
            /\ stress' = [f \in Stress |->
                             [phys |-> StressResult(run, n),
                              coeffs |-> FwdTrans_IterPerExp(StressResult(run, n))]]
            /\ physState' = [f \in Fields |-> IF f \in Stress THEN StressPhysState
                                              ELSE physState[f]]
       ELSE UNCHANGED <<trace, stress, physState>>
    /\ UNCHANGED <<config, mpiConfig, ranks, session, setup, advLast, velfields, engine, run, n, m_time, nchk, m_mdlFile, exit, waveSpace,
                   steady, chkLog, chkAtEntry, mdlLog, filterLog, finLog>>

\* fields = TimeIntegrate(m_timestep, m_integrationSoln, m_integrationOps)
AdvanceVelocity ==
    /\ pc = "primary"
    /\ pc' = After("primary")
    /\ trace' = Stamp("TimeIntegrate")
    /\ UNCHANGED <<config, mpiConfig, ranks, session, setup, advLast, velfields, engine, stress, run, n, m_time, nchk, m_mdlFile, exit, fieldState,
                   steady, chkLog, chkAtEntry, mdlLog, filterLog, finLog>>

\* m_time += m_timestep
ClockAdvance ==
    /\ pc = "clock"
    /\ pc' = After("clock")
    /\ m_time' = NextTime(m_time)
    /\ trace' = Stamp("ClockAdvance")
    /\ UNCHANGED <<config, mpiConfig, ranks, session, setup, advLast, velfields, engine, stress, run, n, nchk, m_mdlFile, exit, fieldState,
                   steady, chkLog, chkAtEntry, mdlLog, filterLog, finLog>>

\* if(m_energysteps && !((n+1)%m_energysteps)) WriteModalEnergy()
WriteModalEnergy ==
    /\ pc = "energy"
    /\ pc' = After("energy")
    /\ IF EnergyDue(n)
       THEN /\ trace' = Stamp("WriteModalEnergy")
            /\ mdlLog' = Append(mdlLog, IF m_mdlFile = "open" THEN "write" ELSE "lost")
            /\ physState' = IF m_HomogeneousType = "eNotHomogeneous"
                            THEN [f \in Fields |-> IF f \in Convective THEN TRUE
                                                   ELSE physState[f]]
                            ELSE physState
       ELSE UNCHANGED <<trace, mdlLog, physState>>
    /\ UNCHANGED <<config, mpiConfig, ranks, session, setup, advLast, velfields, engine, stress, run, n, m_time, nchk, m_mdlFile, exit, waveSpace,
                   steady, chkLog, chkAtEntry, filterLog, finLog>>

\* if(m_checksteps && n && !((n+1)%m_checksteps)): the checkpoint dump
Checkpoint ==
    /\ pc = "check"
    /\ pc' = After("check")
    /\ IF CheckpointDue(n)
       THEN /\ nchk' = nchk + 1
            /\ chkLog' = Append(chkLog, CheckpointNumber(nchk))
            /\ trace' = Stamp("Checkpoint")
            /\ IF m_HomogeneousType = "eHomogeneous1D"
               THEN /\ waveSpace' = [f \in Fields |-> TRUE]
                    /\ physState' = [f \in Fields |-> FALSE]
               ELSE /\ waveSpace' = waveSpace
                    /\ physState' = [f \in Fields |-> IF f \in Convective THEN TRUE
                                                      ELSE physState[f]]
       ELSE UNCHANGED <<nchk, chkLog, trace, fieldState>>
    /\ UNCHANGED <<config, mpiConfig, ranks, session, setup, advLast, velfields, engine, stress, run, n, m_time, m_mdlFile, exit, steady,
                   chkAtEntry, mdlLog, filterLog, finLog>>

\* if(m_steadyStateSteps && n && !((n+1)%m_steadyStateSteps)) and the break
SteadyStateCheck ==
    /\ pc = "steady"
    /\ IF SteadyDue(n)
       THEN \E c \in IntegratorStates :
            LET r == CalcSteadyState(c, previousL2, m_steadyStateTol)
            IN /\ previousL2' = r.previousL2
               /\ returnval' = r.returnval
               /\ calls' = calls + 1
               /\ lastL2' = L2Sum(c)
               /\ trace' = Stamp("CalcSteadyState")
               /\ IF r.returnval
                  THEN pc' = BreakTarget /\ exit' = "Converged"
                  ELSE pc' = After("steady") /\ exit' = exit
       ELSE /\ pc' = After("steady")
            /\ UNCHANGED <<steady, trace, exit>>
    /\ UNCHANGED <<config, mpiConfig, ranks, session, setup, advLast, velfields, engine, stress, run, n, m_time, nchk, m_mdlFile, fieldState,
                   chkLog, chkAtEntry, mdlLog, filterLog, finLog>>

\* the transform to coefficient space and the Update loop over m_filters
FilterUpdate ==
    /\ pc = "filter"
    /\ pc' = After("filter")
    /\ n' = n + 1
    /\ IF m_filters > 0
       THEN /\ physState' = [f \in Fields |-> IF f \in Convective THEN FALSE
                                              ELSE physState[f]]
            /\ filterLog' = filterLog \o FilterCalls("Update", m_time)
            /\ trace' = Stamp("FilterUpdate")
       ELSE UNCHANGED <<physState, filterLog, trace>>
    /\ UNCHANGED <<config, mpiConfig, ranks, session, setup, advLast, velfields, engine, stress, run, m_time, nchk, m_mdlFile, exit, waveSpace,
                   steady, chkLog, chkAtEntry, mdlLog, finLog>>

\* after the loop: back-transform or write-back of the fields
FinalTransform ==
    /\ pc = "finalise"
    /\ pc' = FinaliseAfter("finalise")
    /\ IF m_HomogeneousType = "eHomogeneous1D"
       THEN /\ waveSpace' = [f \in Fields |-> FALSE]
            /\ physState' = [f \in Fields |-> TRUE]
            /\ finLog' = Append(finLog, "BwdTrans")
       ELSE /\ waveSpace' = waveSpace
            /\ physState' = [f \in Fields |-> IF f \in Convective THEN TRUE
                                              ELSE physState[f]]
            /\ finLog' = Append(finLog, "SetPhys")
    /\ UNCHANGED <<config, mpiConfig, ranks, session, setup, advLast, velfields, engine, stress, run, n, m_time, nchk, m_mdlFile, exit,
                   steady, trace, chkLog, chkAtEntry, mdlLog, filterLog>>

\* if (m_energysteps) m_mdlFile.close()
CloseLog ==
    /\ pc = "close"
    /\ pc' = FinaliseAfter("close")
    /\ IF ClosesLog
       THEN /\ m_mdlFile' = "closed"
            /\ mdlLog' = Append(mdlLog, "close")
            /\ finLog' = Append(finLog, "close")
       ELSE UNCHANGED <<m_mdlFile, mdlLog, finLog>>
    /\ UNCHANGED <<config, mpiConfig, ranks, session, setup, advLast, velfields, engine, stress, run, n, m_time, nchk, exit, fieldState,
                   steady, trace, chkLog, chkAtEntry, filterLog>>

\* the Finalise loop over m_filters; AdvanceInTime returns
FilterFinalise ==
    /\ pc = "filterFinalise"
    /\ pc' = FinaliseAfter("filterFinalise")
    /\ filterLog' = filterLog \o FilterCalls("Finalise", m_time)
    /\ finLog' = Append(finLog, "Finalise")
    /\ UNCHANGED <<config, mpiConfig, ranks, session, setup, advLast, velfields, engine, stress, run, n, m_time, nchk, m_mdlFile, exit, fieldState,
                   steady, trace, chkLog, chkAtEntry, mdlLog>>

Next ==
    \/ InitObject
    \/ AdvanceEntry
    \/ LoopTest
    \/ SubStepSaveFields
    \/ SubStepAdvance
    \/ AdvanceViscoElastic
    \/ AdvanceVelocity
    \/ ClockAdvance
    \/ WriteModalEnergy
    \/ Checkpoint
    \/ SteadyStateCheck
    \/ FilterUpdate
    \/ FinalTransform
    \/ CloseLog
    \/ FilterFinalise

Spec == Init /\ [][Next]_vars

\* the statements of one invocation of AdvanceInTime: once entered, the single
\* thread of control keeps executing them until the function returns
RunStep ==
    \/ LoopTest
    \/ SubStepSaveFields
    \/ SubStepAdvance
    \/ AdvanceViscoElastic
    \/ AdvanceVelocity
    \/ ClockAdvance
    \/ WriteModalEnergy
    \/ Checkpoint
    \/ SteadyStateCheck
    \/ FilterUpdate
    \/ FinalTransform
    \/ CloseLog
    \/ FilterFinalise

\* one call of CalcSteadyState on any coefficient state of the fields
SteadyCall ==
    /\ calls < MaxCalls
    /\ \E c \in CoeffStates :
          LET r == CalcSteadyState(c, previousL2, m_steadyStateTol)
          IN /\ previousL2' = r.previousL2
             /\ returnval' = r.returnval
             /\ calls' = calls + 1
             /\ lastL2' = L2Sum(c)
    /\ UNCHANGED <<config, mpiConfig, ranks, session, setup, advLast, velfields, engine, stress, pc, run, n, m_time, nchk, m_mdlFile, exit, fieldState, logs>>

SpecSteady == InitWith(ConfigSteady) /\ [][SteadyCall]_vars

\* two consecutive calls of CalcSteadyState with the fields untouched in between:
\* the second call reads the coefficient vectors the first one read
SteadyCallTwice ==
    /\ calls + 2 <= MaxCalls
    /\ \E c \in CoeffStates :
          LET first == CalcSteadyState(c, previousL2, m_steadyStateTol)
              second == CalcSteadyState(c, first.previousL2, m_steadyStateTol)
          IN /\ previousL2' = second.previousL2
             /\ returnval' = second.returnval
             /\ calls' = calls + 2
             /\ lastL2' = L2Sum(c)
    /\ UNCHANGED <<config, mpiConfig, ranks, session, setup, advLast, velfields, engine, stress, pc, run, n, m_time, nchk, m_mdlFile, exit, fieldState, logs>>

NextSteadyPair ==
    \/ SteadyCall
    \/ SteadyCallTwice

SpecSteadyPair == InitWith(ConfigSteady) /\ [][NextSteadyPair]_vars

\* the configurations under which the velocity history is followed on its own
ConfigHistory ==
    /\ LoopOff
    /\ m_subSteppingScheme = TRUE
    /\ m_intSteps \in 1..MaxIntSteps
    /\ m_timestep \in 1..MaxTicks
    /\ minsubsteps = 0
    /\ m_cflSafetyFactor = 1
    /\ m_expdim = 2
    /\ ExpOrder = [e \in 1..NumElmts |-> 2]

\* the configurations under which the stable step is estimated on its own: every
\* safety factor, expansion dimension and number of modes per element
ConfigCFL ==
    /\ LoopOff
    /\ m_subSteppingScheme = TRUE
    /\ m_intSteps = 1
    /\ m_timestep = 1
    /\ minsubsteps = 0
    /\ m_cflSafetyFactor \in 1..MaxCfl
    /\ m_expdim \in 1..3
    /\ ExpOrder \in [1..NumElmts -> 1..MaxModes]

\* GetSubstepTimeStep() on any velocity field, the one estimate of a sub-stepped
\* step; a failed assertion ends the process
GetSubstepTimeStep ==
    /\ cflStatus = "none"
    /\ \E inarray \in VelocityInputs :
          \E r \in {GetStdVelocity(inarray)} :
             /\ cflStatus' = r.status
             /\ IF r.status = "ok"
                THEN /\ stdVelocity' = r.stdV
                     /\ \E t \in {tstep(r.stdV)} : TimeStep' = Vmin(t)
                ELSE UNCHANGED <<stdVelocity, TimeStep>>
    /\ UNCHANGED <<config, mpiConfig, ranks, session, setup, advLast, velfields, engineConfig, subStep, history, stress, pc, run, n, m_time,
                   nchk, m_mdlFile, exit, fieldState, steady, logs>>

SpecCFL == InitWith(ConfigCFL) /\ [][GetSubstepTimeStep]_vars

\* stdVelocity = GetStdVelocity(velfields) on any velocity field; a failed
\* assertion ends the process
GetStdVelocityCall ==
    /\ cflStatus = "none"
    /\ \E inarray \in VelocityInputs :
          \E r \in {GetStdVelocity(inarray)} :
             /\ velfields' = inarray
             /\ cflStatus' = r.status
             /\ IF r.status = "ok"
                THEN stdVelocity' = r.stdV
                ELSE UNCHANGED stdVelocity
    /\ UNCHANGED <<config, mpiConfig, ranks, session, setup, advLast, engineConfig, subStep, history, stress, pc, run, n, m_time,
                   nchk, m_mdlFile, exit, fieldState, steady, logs, TimeStep>>

SpecStdVelocity == InitWith(ConfigCFL) /\ [][GetStdVelocityCall]_vars

\* ------------------------------------------------------------------ SubStepAdvance
\* entry of AdvanceInTime: m_integrationSoln = InitializeScheme(...), n = 0
SubStepNewRun ==
    /\ run < MaxRuns
    /\ run' = run + 1
    /\ n' = 0
    /\ solVector' = [m \in 0..(m_intSteps - 1) |-> <<0, 1>>]
    /\ saves' = <<>>
    /\ ExtVel' = <<>>
    /\ UNCHANGED <<config, mpiConfig, ranks, session, setup, advLast, velfields, engineConfig, cfl, stress, pc, m_time, nchk,
                   m_mdlFile, exit, fieldState, steady, logs,
                   ncalls, nint, nsubsteps, dt, stableDt, subLog,
                   m_previousVelFields, arrays, toff>>

\* SubStepAdvance(n) for any stable step GetSubstepTimeStep may return
SubStepAdvanceCall ==
    /\ run > 0
    /\ n < MaxSteps
    /\ \E d \in StableSteps :
          \E c \in {NInt(ncalls)}, k \in {NSubSteps(m_timestep, d, minsubsteps)} :
          \E h \in {SubStepSize(m_timestep, k)} :
          \E adv \in {[m \in 0..(c - 1) |->
                          SubCycle([t |-> solVector[m], steps |-> 0], k, h)]} :
             /\ ncalls' = ncalls + 1
             /\ nint' = c
             /\ stableDt' = d
             /\ nsubsteps' = k
             /\ dt' = h
             /\ solVector' = [m \in DOMAIN solVector |->
                                 IF m < c THEN adv[m].t ELSE solVector[m]]
             /\ subLog' = [i \in 1..c |->
                              [slot |-> i - 1, steps |-> adv[i - 1].steps, dt |-> h]]
    /\ n' = n + 1
    /\ UNCHANGED <<config, mpiConfig, ranks, session, setup, advLast, velfields, engineConfig, history, cfl, stress, pc, run, m_time, nchk,
                   m_mdlFile, exit, fieldState, steady, logs>>

\* SubStepSaveFields(n) on the physical values v of the velocity fields, one of fields
SubStepSaveFieldsOn(fields) ==
    /\ run > 0
    /\ n < MaxSaves
    /\ \E v \in fields :
          LET h == Rotate(m_previousVelFields)
              put == WriteAll(arrays, PutWrites(h, v))
          IN /\ m_previousVelFields' = h
             /\ arrays' = IF FirstSave(n) THEN WriteAll(put, InitWrites(h, v)) ELSE put
             /\ saves' = Append(saves, v)
    /\ n' = n + 1
    /\ ExtVel' = <<>>
    /\ UNCHANGED <<config, mpiConfig, ranks, session, setup, advLast, velfields, engineConfig, subStep, cfl, stress, pc, run, m_time, nchk,
                   m_mdlFile, exit, fieldState, steady, logs, toff>>

\* SubStepSaveFields(n) on any physical values of the velocity fields
SubStepSaveFieldsCall == SubStepSaveFieldsOn(SavedFields)

\* SubStepExtrapoloteField(toff, ExtVel), called from the sub-cycle that follows
\* the save of the step
SubStepExtrapoloteField ==
    /\ run > 0
    /\ n > 0
    /\ \E tau \in 0..(m_timestep - 1), g \in VelValues :
          /\ toff' = tau
          /\ \E l \in {Lagrange(tau)} :
                ExtVel' = [i \in 1..nvel |-> Extrapolate(i - 1, l, g)]
    /\ UNCHANGED <<config, mpiConfig, ranks, session, setup, advLast, velfields, engineConfig, subStep, cfl, stress, pc, run, n, m_time, nchk,
                   m_mdlFile, exit, fieldState, steady, logs,
                   m_previousVelFields, arrays, saves>>

NextHistory ==
    \/ SubStepNewRun
    \/ SubStepSaveFieldsCall
    \/ SubStepExtrapoloteField

SpecHistory == InitWith(ConfigHistory) /\ [][NextHistory]_vars

NextSubStep ==
    \/ SubStepNewRun
    \/ SubStepAdvanceCall

SpecSubStep == InitWith(ConfigSubStep) /\ [][NextSubStep]_vars

\* ------------------------------------------------------------------ SubStepAdvection
\* one interface between a forward and a backward element, one quadrature point
\* and one mode in each: the weight of the point, which is the inner product of
\* the mode with itself
ElmtMass == 2

\* m_traceNormals[i] at the interface, for a normal along the first direction
\* that points forward (1) or backward (-1)
TraceNormals == {[i \in 1..nvel |-> IF i = 1 THEN s ELSE 0] : s \in {-1, 1}}

\* inarray: the value in the forward and in the backward element, the same for
\* every variable, with a jump across the interface
AdvectionInputs == {[i \in 1..nvel |-> <<a, MaxVel - a>>] : a \in VelValues}

\* the physical values of the velocity fields at a save: a flow along the first
\* direction, of one of the two largest speeds
AdvectedFields ==
    {[c \in Velocity |-> IF c = velids[1] THEN a ELSE 0] : a \in (MaxAdvVel - 1)..MaxAdvVel}

\* m_forces[i]->GetPhys(), the same in both elements
ForceValue == 1

\* m_fields[m_velocity[i]]->GetPhys(): the values BwdTrans left in the field when
\* SubStepSaveFields copied them to m_previousVelFields[i]
VelocityPhys == [i \in 1..nvel |-> <<arrays[m_previousVelFields[i - 1]], 1>>]

\* Vn: Vvtvp(m_traceNormals[i], Fwd, Vn) over the directions i
NormalVelocity(normals, vel) ==
    RatSum([i \in 1..nvel |-> RatMul(<<normals[i], 1>>, vel[i])], 1)

\* GetTrace()->Upwind(Vn, Fwd, Bwd, numflux): the forward state where the normal
\* velocity is not negative, the backward state where it is
Upwind(Vn, Fwd, Bwd) == IF RatLess(Vn, <<0, 1>>) THEN Bwd ELSE Fwd

\* m_advObject->DoAdvection(m_fields, Velfields, inarray, outarray, time): the
\* advecting velocity along the normal times the jump of the variable, in both
\* elements
DoAdvection(normals, Velfields, inarray) ==
    [i \in 1..nvel |->
        LET a == RatMul(NormalVelocity(normals, Velfields),
                        <<inarray[i][2] - inarray[i][1], 1>>)
        IN <<a, a>>]

\* IProductWRTBase(outarray[i], WeakAdv[i]); Vmath::Neg(ncoeffs, WeakAdv[i], 1)
WeakAdvection(outarray) ==
    [i \in 1..nvel |->
        [e \in 1..2 |-> RatMul(<<-ElmtMass, 1>>, outarray[i][e])]]

\* AddAdvectionPenaltyFlux(velfield, physfield, Outarray): Vn from the physical
\* values of the velocity fields, the upwind state less the forward and the
\* backward state, each times Vn, added to the forward and the backward element
AddAdvectionPenaltyFlux(normals, velfield, physfield, Outarray) ==
    LET Vn == NormalVelocity(normals, VelocityPhys)
    IN [i \in 1..nvel |->
          LET Fwd == <<physfield[i][1], 1>>
              Bwd == <<physfield[i][2], 1>>
              numflux == Upwind(Vn, Fwd, Bwd)
              dFwd == RatMul(RatAdd(numflux, RatMul(<<-1, 1>>, Fwd)), Vn)
              dBwd == RatMul(RatAdd(numflux, RatMul(<<-1, 1>>, Bwd)), Vn)
          IN <<RatAdd(Outarray[i][1], dFwd), RatAdd(Outarray[i][2], dBwd)>>]

\* Vmath::Neg; MultiplyByElmtInvMass; BwdTrans, which at the one point of a one
\* mode element gives the coefficient; Vadd of the body force where one is defined
RightHandSide(WeakAdv, bodyForce) ==
    [i \in 1..nvel |->
        [e \in 1..2 |->
            RatAdd(RatMul(<<-1, ElmtMass>>, WeakAdv[i][e]),
                   IF bodyForce THEN <<ForceValue, 1>> ELSE <<0, 1>>)]]

\* SubStepAdvection(inarray, outarray, time) at any time of the outer step, on any
\* input state, with or without a body force
SubStepAdvection ==
    /\ run > 0
    /\ n > 0
    /\ \E tau \in 0..(m_timestep - 1) :
          \E l \in {Lagrange(tau)} :
          \E g \in VelValues :
          \E Velfields \in {[i \in 1..nvel |-> Extrapolate(i - 1, l, g)]} :
          \E normals \in TraceNormals, inarray \in AdvectionInputs, bodyForce \in BOOLEAN :
          \E WeakAdv \in {WeakAdvection(DoAdvection(normals, Velfields, inarray))} :
          \E penalised \in {AddAdvectionPenaltyFlux(normals, Velfields, inarray, WeakAdv)} :
             /\ toff' = tau
             /\ ExtVel' = Velfields
             /\ advLast' = [in |-> <<normals, inarray, bodyForce>>,
                            vel |-> Velfields,
                            out |-> RightHandSide(penalised, bodyForce)]
    /\ UNCHANGED <<config, mpiConfig, ranks, session, setup, velfields, engineConfig, subStep, cfl, stress, pc, run, n, m_time, nchk,
                   m_mdlFile, exit, fieldState, steady, logs,
                   m_previousVelFields, arrays, saves>>

\* SubStepSaveFields(n) ahead of the sub-cycle
SubStepSaveAdvected == SubStepSaveFieldsOn(AdvectedFields)

NextAdvection ==
    \/ SubStepNewRun
    \/ SubStepSaveAdvected
    \/ SubStepAdvection

\* the configurations under which SubStepAdvection is followed on its own: a
\* first-order history and every outer step
ConfigAdvection ==
    /\ LoopOff
    /\ m_subSteppingScheme = TRUE
    /\ m_intSteps = 1
    /\ m_timestep \in 1..MaxTicks
    /\ minsubsteps = 0
    /\ m_cflSafetyFactor = 1
    /\ m_expdim = 2
    /\ ExpOrder = [e \in 1..NumElmts |-> 2]

SpecAdvection == InitWith(ConfigAdvection) /\ [][NextAdvection]_vars

FairSpec == InitWith(ConfigLive) /\ [][Next]_vars /\ WF_vars(RunStep)

\* the configurations under which the clock is followed: every step count and
\* outer step size, sub-stepping on or off, the energy record off or at every
\* step, every steady-state interval, no filter or every filter registered
ConfigClock ==
    /\ nsteps \in 0..MaxSteps
    /\ m_checksteps = 0
    /\ m_energysteps \in {0, 1}
    /\ m_steadyStateSteps \in 0..MaxInterval
    /\ m_subSteppingScheme \in BOOLEAN
    /\ m_equationType = "eUnsteadyNavierStokes"
    /\ m_HomogeneousType = "eNotHomogeneous"
    /\ m_filters \in {0, MaxFilters}
    /\ m_steadyStateTol = 1
    /\ m_intSteps = 1
    /\ m_timestep \in TimeSteps
    /\ minsubsteps = 0
    /\ m_cflSafetyFactor = 1
    /\ m_expdim = 2
    /\ ExpOrder = [e \in 1..NumElmts |-> 2]
    /\ SessionOff
    /\ RanksOff

SpecClock == InitWith(ConfigClock) /\ [][Next]_vars

\* ------------------------------------------------------------------ observing a run
\* the stage names stamped on the trace, in the order the specification lists them
StageOrder == <<"SubStepSaveFields", "SubStepAdvance", "ViscoElastic", "TimeIntegrate",
                "ClockAdvance", "WriteModalEnergy", "Checkpoint", "CalcSteadyState",
                "FilterUpdate">>
StageRank(st) == CHOOSE i \in 1..Len(StageOrder) : StageOrder[i] = st

InRun == pc \notin {"v_InitObject", "idle"}
Returned == pc = "idle" /\ run > 0

\* the outer steps of the current run that have got past the statement at pc value p
PastStage(p) ==
    LET i == CHOOSE j \in 1..Len(Stages) : Stages[j] = p
        later == {Stages[j] : j \in (i + 1)..Len(Stages)}
    IN {k \in 0..n : \/ k < n
                     \/ run > 0 /\ pc \in later
                     \/ run > 0 /\ exit = "Converged"}

\* the outer steps of the current run that ran to the end of the loop body
StepsCompleted == {k \in 0..n : k < n}

Stamped(k, st) == \E i \in 1..Len(trace) : trace[i] = <<k, st>>
StampCount(st) == Cardinality({i \in 1..Len(trace) : trace[i][2] = st})

\* the checkpoint numbers written by the current run
RunChkLog == SubSeq(chkLog, chkAtEntry + 1, Len(chkLog))

\* ------------------------------------------------------------------ v_InitObject
\* std::string velids[] = {"u","v","w"}
velidNames == <<"u", "v", "w">>

\* the variable names a session may give a field
VariableNames == {"u", "v", "w", "p", "U"}

\* the lower-case form NoCaseStringCompare compares
Lower(name) == IF name = "U" THEN "u" ELSE name

\* NoCaseStringCompare(a, b): 0 when the strings are equal up to case
NoCaseStringCompare(a, b) == IF Lower(a) = Lower(b) THEN 0 ELSE 1

\* int numfields = m_fields.num_elements()
numfields == Len(fieldVariables)

\* for(j = 0; j < numfields; ++j): the j at which the loop over the fields ends
\* for velids[k], the first field of that name, or numfields when none has it
FindField(k) ==
    LET hits == {j \in 0..(numfields - 1) :
                    NoCaseStringCompare(velidNames[k + 1], fieldVariables[j + 1]) = 0}
    IN IF hits = {} THEN numfields
       ELSE CHOOSE j \in hits : \A h \in hits : j <= h

\* if(j == numfields) ASSERTL0(false, "Failed to find field: ..."): the test sits
\* in the body of the loop, after the break, so it is made at the j the body
\* runs with and does not break at
FailedToFind(k) == \E j \in 0..(Min(FindField(k), numfields) - 1) : j = numfields

\* what an int of m_velocity that was never assigned may hold
UnsetInts == {-1, 0, 7}

\* m_velocity[k] = j at the break; an entry the loop did not assign keeps the
\* value g[k] the allocation left in it
VelocityIndex(k, g) == IF FindField(k) < numfields THEN FindField(k) ELSE g[k]

\* m_session->MatchSolverInfo(tag, str[idx], match, false)
MatchSolverInfo(tag, idx) == tag = idx

\* for(i = 0; i < size; ++i) { MatchSolverInfo(tag, str[i], match); if(match) break; }:
\* the value of i behind the loop
MatchLoop(tag, size) ==
    IF \E idx \in 0..(size - 1) : MatchSolverInfo(tag, idx)
    THEN CHOOSE idx \in 0..(size - 1) :
            MatchSolverInfo(tag, idx) /\ \A h \in 0..(idx - 1) : ~MatchSolverInfo(tag, h)
    ELSE size

\* case eNoEquationType: default: ASSERTL0(false, "Unknown or undefined equation type")
SwitchAborts(type) == type = eNoEquationType

\* i at the assertion of line 185: the VISELTYPE loop runs for the viscoelastic
\* equation type only, any other type leaves i as the EQTYPE loop set it
IndexAtViscoAssert(type) ==
    IF type = eUnsteadyViscoElastic
    THEN MatchLoop(VISELTYPE, eEquationViscoElasticTypeSize)
    ELSE type

\* the first assertion of v_InitObject that fails, lines 82-185, or "ok"
SetupStatus ==
    LET type == MatchLoop(EQTYPE, eEquationTypeSize)
    IN IF \E k \in 0..(m_spacedim - 1) : FailedToFind(k) THEN "Failed to find field"
       ELSE IF type = eEquationTypeSize THEN "EQTYPE not found"
       ELSE IF SwitchAborts(type) THEN "Unknown or undefined equation type"
       ELSE IF IndexAtViscoAssert(type) = eEquationViscoElasticTypeSize
            THEN "VISELTYPE not found"
       ELSE "ok"

\* the sessions that differ in the fields and the space dimension
ConfigSetupFields ==
    /\ fieldVariables \in UNION {[1..len -> VariableNames] : len \in 1..MaxFields}
    /\ m_spacedim \in 1..3
    /\ eNoEquationType = 0
    /\ eUnsteadyViscoElastic = eEquationTypeSize - 1
    /\ eEquationViscoElasticTypeSize = MaxViscoTypes
    /\ EQTYPE = 1
    /\ VISELTYPE = -1
    /\ AdvectiveType = "none"

\* the sessions that differ in the two tags and in the values of the enumerators,
\* which the header gives and this file does not
ConfigSetupTags ==
    /\ fieldVariables = <<"u", "v", "p">>
    /\ m_spacedim = 2
    /\ eNoEquationType \in 0..(eEquationTypeSize - 1)
    /\ eUnsteadyViscoElastic \in (0..(eEquationTypeSize - 1)) \ {eNoEquationType}
    /\ eEquationViscoElasticTypeSize \in 1..MaxViscoTypes
    /\ EQTYPE \in -1..(eEquationTypeSize - 1)
    /\ VISELTYPE \in -1..(eEquationViscoElasticTypeSize - 1)
    /\ AdvectiveType = "none"

ConfigSetup ==
    /\ StagesOff
    /\ m_subSteppingScheme = FALSE
    /\ m_intSteps = 1
    /\ m_timestep = 1
    /\ minsubsteps = 0
    /\ m_cflSafetyFactor = 1
    /\ m_expdim = 2
    /\ ExpOrder = [e \in 1..NumElmts |-> 2]
    /\ (ConfigSetupFields \/ ConfigSetupTags)
    /\ RanksOff

\* v_InitObject, lines 75-185: the velocity indices and the two tags
InitObjectLookup ==
    /\ setupStatus = "none"
    /\ \E g \in [0..(m_spacedim - 1) -> UnsetInts] :
          m_velocity' = [k \in 0..(m_spacedim - 1) |-> VelocityIndex(k, g)]
    /\ tagIndex' = (LET type == MatchLoop(EQTYPE, eEquationTypeSize)
                    IN IF type = eEquationTypeSize \/ SwitchAborts(type) THEN type
                       ELSE IndexAtViscoAssert(type))
    /\ setupStatus' = SetupStatus
    /\ UNCHANGED <<m_advObject, config, mpiConfig, ranks, session, advLast, velfields, engine, stress, pc, run, n, m_time, nchk,
                   m_mdlFile, exit, fieldState, steady, logs>>

SpecSetup == InitWith(ConfigSetup) /\ [][InitObjectLookup]_vars

\* the equation types v_InitObject names
AllEquationTypes ==
    {"eNoEquationType", "eSteadyStokes", "eSteadyOseen", "eSteadyLinearisedNS",
     "eUnsteadyLinearisedNS", "eSteadyNavierStokes", "eUnsteadyNavierStokes",
     "eUnsteadyStokes", "eUnsteadyViscoElastic"}

\* the values of the AdvectiveType tag: not defined, or the name of an operator
AdvectiveTags == {"none", "Convective", "Linearised"}

\* the case labels of switch(m_equationType) that are not the default
SwitchCases ==
    {"eSteadyStokes", "eSteadyOseen", "eSteadyNavierStokes", "eSteadyLinearisedNS",
     "eUnsteadyNavierStokes", "eUnsteadyStokes", "eUnsteadyViscoElastic"}

\* case eNoEquationType: default: ASSERTL0(false, "Unknown or undefined equation type")
SwitchDefault(type) == type \notin SwitchCases

\* vConvectiveType = name; if (DefinesTag("AdvectiveType")) vConvectiveType = GetTag("AdvectiveType")
TagOr(name) == IF AdvectiveType # "none" THEN AdvectiveType ELSE name

\* the three if statements of lines 250-275: the name handed to CreateInstance,
\* or "unset" when none of them creates the operator
AdvectionTerm(type) ==
    LET first == IF type \in {"eUnsteadyNavierStokes", "eSteadyNavierStokes",
                               "eUnsteadyViscoElastic"}
                 THEN TagOr("Convective") ELSE "unset"
        second == IF type = "eUnsteadyLinearisedNS" THEN TagOr("Linearised") ELSE first
    IN IF type = "eUnsteadyStokes" THEN "NoAdvection" ELSE second

\* the first assertion of lines 112-185 that fails for the equation type the
\* EQTYPE tag names, or "ok"
EquationStatus ==
    LET i == MatchLoop(EQTYPE, eEquationTypeSize)
    IN IF i = eEquationTypeSize THEN "EQTYPE not found"
       ELSE IF SwitchDefault(m_equationType) THEN "Unknown or undefined equation type"
       ELSE IF IndexAtViscoAssert(i) = eEquationViscoElasticTypeSize
            THEN "VISELTYPE not found"
       ELSE "ok"

\* the sessions that name any equation type, with any value of its enumerator
\* and any AdvectiveType tag
ConfigEquation ==
    /\ nsteps = 0
    /\ m_checksteps = 0
    /\ m_energysteps = 0
    /\ m_steadyStateSteps = 0
    /\ m_equationType \in AllEquationTypes
    /\ m_HomogeneousType = "eNotHomogeneous"
    /\ m_filters = 0
    /\ m_steadyStateTol = 1
    /\ m_subSteppingScheme = FALSE
    /\ m_intSteps = 1
    /\ m_timestep = 1
    /\ minsubsteps = 0
    /\ m_cflSafetyFactor = 1
    /\ m_expdim = 2
    /\ ExpOrder = [e \in 1..NumElmts |-> 2]
    /\ fieldVariables = <<"u", "v", "p">>
    /\ m_spacedim = 2
    /\ eNoEquationType \in 0..(eEquationTypeSize - 1)
    /\ eUnsteadyViscoElastic \in (0..(eEquationTypeSize - 1)) \ {eNoEquationType}
    /\ eEquationViscoElasticTypeSize \in 1..MaxViscoTypes
    /\ EQTYPE \in 0..(eEquationTypeSize - 1)
    /\ (EQTYPE = eNoEquationType) <=> (m_equationType = "eNoEquationType")
    /\ (EQTYPE = eUnsteadyViscoElastic) <=> (m_equationType = "eUnsteadyViscoElastic")
    /\ VISELTYPE \in -1..(eEquationViscoElasticTypeSize - 1)
    /\ AdvectiveType \in AdvectiveTags
    /\ RanksOff

\* v_InitObject, lines 101-275: the equation type, its setup and the advection
\* operator; a failed assertion ends the process before the operator is created
InitObjectEquation ==
    /\ setupStatus = "none"
    /\ setupStatus' = EquationStatus
    /\ tagIndex' = MatchLoop(EQTYPE, eEquationTypeSize)
    /\ m_advObject' = IF EquationStatus = "ok" THEN AdvectionTerm(m_equationType)
                      ELSE m_advObject
    /\ UNCHANGED <<m_velocity, config, mpiConfig, ranks, session, advLast, velfields, engine, stress, pc, run, n, m_time, nchk,
                   m_mdlFile, exit, fieldState, steady, logs>>

SpecEquation == InitWith(ConfigEquation) /\ [][InitObjectEquation]_vars

\* ------------------------------------------------------------------ the ranks of a run
\* the runs of several ranks with the energy record in the decomposed case: up
\* to MaxRankSteps steps on two ranks, fewer steps on more ranks
ConfigRanks ==
    /\ nsteps \in 0..MaxRankSteps
    /\ m_checksteps = 0
    /\ m_energysteps \in {1, 2}
    /\ m_steadyStateSteps \in 0..2
    /\ m_subSteppingScheme = FALSE
    /\ m_equationType = "eUnsteadyNavierStokes"
    /\ m_HomogeneousType = "eHomogeneous1D"
    /\ m_filters = 0
    /\ m_steadyStateTol = 1
    /\ m_intSteps = 1
    /\ m_timestep = 1
    /\ minsubsteps = 0
    /\ m_cflSafetyFactor = 1
    /\ m_expdim = 2
    /\ ExpOrder = [e \in 1..NumElmts |-> 2]
    /\ SessionOff
    /\ nproc \in 1..MaxRanks
    /\ nsteps * nproc <= 2 * MaxRankSteps
    /\ locsize \in 1..MaxLocal
    /\ rendezvous \in BOOLEAN

Ranks == 0..(nproc - 1)

\* variant: m starts again at 0 with every block
BlockLines_Restart(step, m, src) == [j \in 1..locsize |-> <<step, j - 1, src>>]

\* the lines written for one block of energies: m_time, m, energy[j] for
\* j = 0..energy.num_elements()-1, with ++m at every line
BlockLines(step, m, src) == [j \in 1..locsize |-> <<step, m + j - 1, src>>]

\* for(n = 0; n < nsteps; ++n) on rank r
RankLoopTest(r) ==
    /\ rankPc[r] = "loop"
    /\ rankPc' = [rankPc EXCEPT ![r] = IF LoopCond(rankN[r]) THEN "energy" ELSE "returned"]
    /\ UNCHANGED <<rankN, rankPreviousL2, recvFrom, modeIndex, mailbox,
                   mdlRecords, sends, recvs>>

\* WriteModalEnergy on rank r: rank 0 writes its own block, every other rank
\* calls Send(0, energy)
RankWriteModalEnergy(r) ==
    /\ rankPc[r] = "energy"
    /\ IF ~EnergyDue(rankN[r])
       THEN /\ rankPc' = [rankPc EXCEPT ![r] = "steady"]
            /\ UNCHANGED <<recvFrom, modeIndex, mailbox, mdlRecords, sends>>
       ELSE IF r = 0
       THEN /\ mdlRecords' = mdlRecords \o BlockLines(rankN[0], 0, 0)
            /\ modeIndex' = locsize
            /\ recvFrom' = 1
            /\ rankPc' = [rankPc EXCEPT ![r] = IF 1 < nproc THEN "recv" ELSE "steady"]
            /\ UNCHANGED <<mailbox, sends>>
       ELSE /\ mailbox' = [mailbox EXCEPT ![r] = Append(@, rankN[r])]
            /\ sends' = [sends EXCEPT ![r] = Append(@, rankN[r])]
            /\ rankPc' = [rankPc EXCEPT ![r] = "send"]
            /\ UNCHANGED <<recvFrom, modeIndex, mdlRecords>>
    /\ UNCHANGED <<rankN, rankPreviousL2, recvs>>

\* for (int i = 1; i < nproc; ++i) { Recv(i, energy); write the block }: one
\* pass of the loop of rank 0, which waits for the message of rank i
RankRecv ==
    /\ rankPc[0] = "recv"
    /\ mailbox[recvFrom] # <<>>
    /\ mailbox' = [mailbox EXCEPT ![recvFrom] = Tail(@)]
    /\ recvs' = Append(recvs, <<rankN[0], recvFrom, Head(mailbox[recvFrom])>>)
    /\ mdlRecords' = mdlRecords \o BlockLines(rankN[0], modeIndex, recvFrom)
    /\ modeIndex' = modeIndex + locsize
    /\ recvFrom' = recvFrom + 1
    /\ rankPc' = [rankPc EXCEPT ![0] = IF recvFrom + 1 < nproc THEN "recv" ELSE "steady"]
    /\ UNCHANGED <<rankN, rankPreviousL2, sends>>

\* Send(0, energy) returns on rank r: at once when the library buffers the
\* message, and when rank 0 has received it otherwise
RankSendReturns(r) ==
    /\ rankPc[r] = "send"
    /\ ~rendezvous \/ mailbox[r] = <<>>
    /\ rankPc' = [rankPc EXCEPT ![r] = "steady"]
    /\ UNCHANGED <<rankN, rankPreviousL2, recvFrom, modeIndex, mailbox,
                   mdlRecords, sends, recvs>>

\* the steady-state test of rank r on its own coefficients, the break, and ++n
RankSteadyStateCheck(r) ==
    /\ rankPc[r] = "steady"
    /\ IF SteadyDue(rankN[r])
       THEN \E c \in IntegratorStates :
            \E res \in {CalcSteadyState(c, rankPreviousL2[r], m_steadyStateTol)} :
               /\ rankPreviousL2' = [rankPreviousL2 EXCEPT ![r] = res.previousL2]
               /\ IF res.returnval
                  THEN /\ rankPc' = [rankPc EXCEPT ![r] = "returned"]
                       /\ rankN' = rankN
                  ELSE /\ rankPc' = [rankPc EXCEPT ![r] = "loop"]
                       /\ rankN' = [rankN EXCEPT ![r] = @ + 1]
       ELSE /\ rankPc' = [rankPc EXCEPT ![r] = "loop"]
            /\ rankN' = [rankN EXCEPT ![r] = @ + 1]
            /\ rankPreviousL2' = rankPreviousL2
    /\ UNCHANGED <<recvFrom, modeIndex, mailbox, mdlRecords, sends, recvs>>

\* one statement of rank r
RankStep(r) ==
    /\ r \in Ranks
    /\ \/ RankLoopTest(r)
       \/ RankWriteModalEnergy(r)
       \/ (r = 0 /\ RankRecv)
       \/ RankSendReturns(r)
       \/ RankSteadyStateCheck(r)
    /\ UNCHANGED <<config, mpiConfig, session, setup, advLast, velfields, engine, stress, pc, run, n,
                   m_time, nchk, m_mdlFile, exit, fieldState, steady, logs>>

NextRanks == \E r \in 0..(MaxRanks - 1) : RankStep(r)

SpecRanks == InitWith(ConfigRanks) /\ [][NextRanks]_vars

\* every rank is a process of its own that keeps running
FairSpecRanks == SpecRanks /\ \A r \in 0..(MaxRanks - 1) : WF_vars(RankStep(r))

\* ------------------------------------------------------------------ claims

\* C1: within one outer step the stages that run do so in the order
\* SubStepSaveFields, SubStepAdvance, secondary integration, primary
\* integration, clock advance, energy record, checkpoint, steady-state check,
\* filter update, each at most once, and every stage of step k precedes every
\* stage of step k+1; a step that ran to its end has run every enabled
\* unconditional stage.
C1_StageOrder ==
    /\ \A i \in 1..(Len(trace) - 1) :
          \/ trace[i][1] < trace[i + 1][1]
          \/ /\ trace[i][1] = trace[i + 1][1]
             /\ StageRank(trace[i][2]) < StageRank(trace[i + 1][2])
    /\ \A i \in 1..Len(trace) : trace[i][1] <= n
    /\ \A k \in StepsCompleted :
          /\ Stamped(k, "TimeIntegrate") /\ Stamped(k, "ClockAdvance")
          /\ m_subSteppingScheme <=>
                (Stamped(k, "SubStepSaveFields") /\ Stamped(k, "SubStepAdvance"))
          /\ m_subSteppingScheme \/
                (~Stamped(k, "SubStepSaveFields") /\ ~Stamped(k, "SubStepAdvance"))
          /\ (m_equationType = "eUnsteadyViscoElastic") <=> Stamped(k, "ViscoElastic")

\* a run with every kind of stage enabled has completed a step in which all nine ran
C1_Witness ==
    /\ m_subSteppingScheme /\ m_equationType = "eUnsteadyViscoElastic"
    /\ pc = "loop" /\ n = 2
    /\ \A i \in 1..Len(StageOrder) : Stamped(1, StageOrder[i])

\* C2: a checkpoint is written at step k exactly when checkInterval > 0, k > 0
\* and (k+1) mod checkInterval = 0; 10 steps with checkInterval 5 write
\* exactly 2 checkpoints.
C2_CheckpointSteps ==
    /\ \A k \in PastStage("check") :
          Stamped(k, "Checkpoint") <=>
             (m_checksteps > 0 /\ k > 0 /\ (k + 1) % m_checksteps = 0)
    /\ (Returned /\ exit = "Completed" /\ nsteps = 10 /\ m_checksteps = 5)
          => (StampCount("Checkpoint") = 2 /\ Len(RunChkLog) = 2)

\* the 10-step run with checkInterval 5 has returned after its two checkpoints
C2_Witness ==
    /\ Returned /\ exit = "Completed" /\ nsteps = 10 /\ m_checksteps = 5
    /\ Stamped(4, "Checkpoint") /\ Stamped(9, "Checkpoint")
    /\ StampCount("Checkpoint") = 2

\* C3 as stated: in every advance run, a later invocation included, the
\* checkpoints written by that run are numbered 1, 2, 3, ...
C3_NumberedFromOnePerRun ==
    \A i \in 1..Len(RunChkLog) : RunChkLog[i] = i

\* C3 as amended: over the life of the process the checkpoints are numbered
\* 1, 2, 3, ... without gap or repeat, so a run continues after the last
\* number of the runs before it, and the first run starts at 1.
C3_NumberedFromOnePerProcess ==
    /\ \A i \in 1..Len(chkLog) : chkLog[i] = i
    /\ \A i \in 1..Len(RunChkLog) : RunChkLog[i] = chkAtEntry + i
    /\ run = 1 => chkAtEntry = 0

\* a second run has written a checkpoint after the first run wrote some
C3_Witness ==
    /\ run = 2 /\ chkAtEntry > 0 /\ Len(RunChkLog) > 1

\* C4: an energy record is produced at step k exactly when energyInterval > 0
\* and (k+1) mod energyInterval = 0, step 0 included, so the steps run so far
\* have produced floor(steps / energyInterval) records.
C4_EnergySteps ==
    /\ \A k \in PastStage("energy") :
          Stamped(k, "WriteModalEnergy") <=>
             (m_energysteps > 0 /\ (k + 1) % m_energysteps = 0)
    /\ m_energysteps > 0 =>
          StampCount("WriteModalEnergy") = Cardinality(PastStage("energy")) \div m_energysteps
    /\ m_energysteps = 0 => StampCount("WriteModalEnergy") = 0

\* a record was produced at step 0, and a run produced more than one record
C4_Witness ==
    /\ Returned /\ m_energysteps = 1 /\ nsteps = 3 /\ exit = "Completed"
    /\ Stamped(0, "WriteModalEnergy") /\ StampCount("WriteModalEnergy") = 3

\* C5: with energyInterval = 0 the diagnostic log is never opened, written or
\* closed, in setup and in any run.
C5_NoEnergyNoLog ==
    m_energysteps = 0 =>
        /\ mdlLog = <<>>
        /\ m_mdlFile = "closed"
        /\ ~\E i \in 1..Len(finLog) : finLog[i] = "close"
        /\ StampCount("WriteModalEnergy") = 0

\* with energyInterval = 0 a second run of several steps has returned
C5_Witness ==
    /\ m_energysteps = 0 /\ Returned /\ run = 2 /\ n >= 2 /\ mdlLog = <<>>

\* C6: the steady-state monitor runs at step k exactly when steadyInterval > 0,
\* k > 0 and (k+1) mod steadyInterval = 0; a converged check ends the loop at
\* that step in state Converged, a check that is not converged lets the loop
\* go on to the next step.
C6_SteadyCheck ==
    [][ /\ \A k \in PastStage("steady")' :
              Stamped(k, "CalcSteadyState")' <=>
                 (m_steadyStateSteps > 0 /\ k > 0 /\ (k + 1) % m_steadyStateSteps = 0)
        /\ (pc = "steady" /\ Stamped(n, "CalcSteadyState")' /\ returnval')
              => /\ exit' = "Converged" /\ n' = n
                 /\ pc' \notin {Stages[j] : j \in 1..Len(Stages)} \cup {"loop"}
        /\ (pc = "steady" /\ Stamped(n, "CalcSteadyState")' /\ ~returnval')
              => /\ exit' = "none" /\ pc' = "filter"
        /\ (pc = "steady" /\ ~Stamped(n, "CalcSteadyState")')
              => /\ exit' = "none" /\ pc' = "filter"
        /\ (exit = "Converged" /\ run' = run) => (n' = n /\ trace' = trace)
        /\ (exit' = "Converged")
              => /\ \E i \in 1..Len(trace') : trace'[i] = <<n', "CalcSteadyState">>
                 /\ returnval'
      ]_vars

\* a check that did not converge was followed by a later step, whose check converged
C6_Witness ==
    /\ exit = "Converged" /\ Returned /\ n = 2
    /\ Stamped(1, "CalcSteadyState") /\ Stamped(2, "CalcSteadyState")
    /\ Stamped(1, "FilterUpdate") /\ ~Stamped(2, "FilterUpdate")

\* C7: every advance run ends, in exactly one of Completed, after exactly
\* nsteps iterations none of whose checks converged, or Converged, after at
\* most nsteps iterations; no other end state exists.
C7_RunTerminates ==
    (pc = "loop" /\ n = 0 /\ exit = "none")
       ~> /\ Returned
          /\ \/ /\ exit = "Completed" /\ n = nsteps
                /\ StampCount("CalcSteadyState") > 0 => ~returnval
                /\ StampCount("TimeIntegrate") = nsteps
             \/ /\ exit = "Converged" /\ n < nsteps /\ returnval
                /\ StampCount("TimeIntegrate") = n + 1

\* a run whose checks never converged has completed, and so has one that converged
C7_Witness ==
    /\ Returned /\ exit = "Completed" /\ nsteps = 3 /\ n = 3
    /\ StampCount("CalcSteadyState") = 2 /\ ~returnval

\* C8: whichever way the loop is left, Completed or Converged, the run performs
\* the same finalisation exactly once: the back-transform or physical
\* write-back of the primary fields, the close of the diagnostic log when
\* energyInterval > 0, and one Finalise per registered filter; none of it
\* happens while the loop is still running.
C8_FinaliseOnce ==
    LET count(x) == Cardinality({i \in 1..Len(finLog) : finLog[i] = x})
        finalised(f) == Cardinality({i \in 1..Len(filterLog) :
                           filterLog[i][1] = "Finalise" /\ filterLog[i][2] = f})
    IN /\ Returned =>
          /\ exit \in {"Completed", "Converged"}
          /\ count("BwdTrans") + count("SetPhys") = 1
          /\ (m_HomogeneousType = "eHomogeneous1D") <=> (count("BwdTrans") = 1)
          /\ count("close") = (IF m_energysteps > 0 THEN 1 ELSE 0)
          /\ count("Finalise") = 1
          /\ \A f \in 1..m_filters : finalised(f) = 1
          /\ \A f \in Convective : physState[f] /\ ~waveSpace[f]
       /\ (InRun /\ exit = "none") =>
          /\ finLog = <<>>
          /\ \A f \in 1..m_filters : finalised(f) = 0

\* a run that left the loop by the steady-state break has been finalised, log
\* close and two filters included
C8_Witness ==
    /\ Returned /\ exit = "Converged" /\ m_energysteps > 0 /\ m_filters = 2
    /\ finLog = <<"SetPhys", "close", "Finalise">>

\* C9: every registered filter gets Initialise once before the first step, one
\* Update in every step that runs to its end, after the clock advance of that
\* step and none in a step that ends in Converged, then Finalise once after
\* the last Update; each round of calls visits the filters in registration
\* order.
C9_FilterProtocol ==
    LET rounds == IF m_filters = 0 THEN 0 ELSE Len(filterLog) \div m_filters
        kind(r) == filterLog[(r - 1) * m_filters + 1][1]
        time(r) == filterLog[(r - 1) * m_filters + 1][3]
    IN /\ m_filters = 0 => filterLog = <<>>
       /\ m_filters > 0 => Len(filterLog) = rounds * m_filters
       /\ \A i \in 1..Len(filterLog) :
             /\ filterLog[i][2] = ((i - 1) % m_filters) + 1
             /\ filterLog[i][1] = kind(((i - 1) \div m_filters) + 1)
             /\ filterLog[i][3] = time(((i - 1) \div m_filters) + 1)
       /\ (m_filters > 0 /\ run > 0) =>
             /\ rounds >= 1 /\ kind(1) = "Initialise"
             /\ \A r \in 2..rounds : kind(r) = "Update" \/ (r = rounds /\ kind(r) = "Finalise")
             /\ \A r \in 2..rounds : kind(r) = "Update" => time(r) = time(1) + (r - 1)
             /\ InRun => rounds = 1 + n /\ kind(rounds) # "Finalise"
             /\ Returned => rounds = 2 + n /\ kind(rounds) = "Finalise"
             /\ \A k \in 0..n : Stamped(k, "FilterUpdate") <=> k < n
             /\ Returned => m_time = time(1) + StampCount("ClockAdvance")

\* two filters went through Initialise, an Update in each completed step and
\* Finalise, in a run whose last step ended in Converged without an Update
C9_Witness ==
    /\ Returned /\ exit = "Converged" /\ m_filters = 2 /\ n = 2
    /\ Len(filterLog) = 8
    /\ filterLog[1] = <<"Initialise", 1, 1>> /\ filterLog[2] = <<"Initialise", 2, 1>>
    /\ filterLog[5] = <<"Update", 1, 3>> /\ filterLog[8] = <<"Finalise", 2, 4>>

C11_RepeatConverges ==
    [][ calls' = calls + 2 => returnval' ]_vars

\* C12 as stated: the sub-step count is max(configuredMinimum,
\* ceil(outerDt / dtInner)) when outerDt > dtInner and max(configuredMinimum, 1)
\* otherwise, an exact integer multiple included.
C12_SubStepCountCeil ==
    ncalls > 1 =>
       LET p == stableDt[1]
           q == stableDt[2]
           ceil == CHOOSE c \in 0..(m_timestep * q + 1) :
                      c * p >= m_timestep * q /\ (c - 1) * p < m_timestep * q
       IN nsubsteps = IF m_timestep * q > p THEN Max(minsubsteps, ceil)
                      ELSE Max(minsubsteps, 1)

\* C12 as amended: when outerDt > dtInner the count is the least integer
\* strictly greater than outerDt / dtInner, floor(outerDt / dtInner) + 1, raised
\* to the configured minimum, and max(configuredMinimum, 1) otherwise;
\* (1.0, 0.3, min 0) gives 4, (1.0, 2.0, min 0) gives 1, (1.0, 2.0, min 5) gives 5.
C12_SubStepCountFloor ==
    ncalls > 1 =>
       LET p == stableDt[1]
           q == stableDt[2]
           above == CHOOSE c \in 1..(m_timestep * q + 1) :
                       c * p > m_timestep * q /\ (c - 1) * p <= m_timestep * q
       IN /\ nsubsteps = IF m_timestep * q > p THEN Max(minsubsteps, above)
                         ELSE Max(minsubsteps, 1)
          /\ (m_timestep = 10 /\ stableDt = <<3, 1>> /\ minsubsteps = 0) => nsubsteps = 4
          /\ (m_timestep = 10 /\ stableDt = <<20, 1>> /\ minsubsteps = 0) => nsubsteps = 1
          /\ (m_timestep = 10 /\ stableDt = <<20, 1>> /\ minsubsteps = 5) => nsubsteps = 5

\* an outer step of exactly two stable steps was cut into three sub-steps
C12_Witness ==
    /\ ncalls > 1 /\ m_timestep = 2 /\ stableDt = <<1, 1>> /\ minsubsteps = 0
    /\ nsubsteps = 3

\* C13: in every call of SubStepAdvance nsub >= 1, nsub >= configuredMinimum and
\* nsub * dtSub = outerDt, and the sub-cycle moves every slot it advances on by
\* exactly one outer step.
C13_SubCycleCoversStep ==
    [][ ncalls' # ncalls =>
          /\ nsubsteps' >= 1
          /\ nsubsteps' >= minsubsteps
          /\ RatMul(<<nsubsteps', 1>>, dt') = <<m_timestep, 1>>
          /\ \A m \in 0..(nint' - 1) :
                solVector'[m] = RatAdd(solVector[m], <<m_timestep, 1>>)
      ]_vars

\* a call cut the outer step of 10 ticks into 4 sub-steps of 5/2 ticks
C13_Witness ==
    /\ ncalls = 3 /\ m_timestep = 10 /\ stableDt = <<3, 1>> /\ nsubsteps = 4
    /\ dt = <<5, 2>> /\ solVector[0] = <<20, 1>>

\* C16: in the c-th call of SubStepAdvance nint = min(c, order); exactly the
\* slots 0..nint-1 are advanced, each by nsub inner steps of size dtSub, and
\* written back to the same slot, the slots from nint on are left as they
\* were; nint never decreases and never exceeds order.
C16_SlotsAdvanced ==
    [][ ncalls' # ncalls =>
          /\ ncalls' = ncalls + 1
          /\ nint' = (IF ncalls < m_intSteps THEN ncalls ELSE m_intSteps)
          /\ nint' >= nint /\ nint' <= m_intSteps
          /\ Len(subLog') = nint'
          /\ \A m \in 0..(nint' - 1) :
                /\ subLog'[m + 1] = [slot |-> m, steps |-> nsubsteps', dt |-> dt']
                /\ solVector'[m] = RatAdd(solVector[m], RatMul(<<nsubsteps', 1>>, dt'))
          /\ \A m \in nint'..(m_intSteps - 1) : solVector'[m] = solVector[m]
      ]_vars

\* the first call advanced slot 0 alone, a later call of the same run both slots
C16_Witness ==
    /\ m_intSteps = 2 /\ run = 1 /\ ncalls = 4 /\ nint = 2 /\ Len(subLog) = 2
    /\ solVector[0] = <<3 * m_timestep, 1>> /\ solVector[1] = <<2 * m_timestep, 1>>
    /\ nsubsteps = 3

\* block i of velocity component c of the history
HistoryBlock(i, c) ==
    LET k == CHOOSE j \in 1..nvel : velids[j] = c
    IN arrays[m_previousVelFields[i * nvel + (k - 1)]]

\* C14: after SubStepSaveFields(0), the first save of a run, every history block
\* holds the velocity snapshot taken by that save.
C14_FirstSaveFillsAll ==
    Len(saves) = 1 =>
       \A i \in 0..(nblocks - 1) : \A c \in Velocity : HistoryBlock(i, c) = saves[1][c]

\* the first save of a second run has replaced what the first run left in both blocks
C14_Witness ==
    /\ run = 2 /\ Len(saves) = 1 /\ m_intSteps = 2
    /\ saves[1] = [c \in Velocity |-> IF c = "u" THEN 1 ELSE 0]
    /\ HistoryBlock(0, "u") = 1 /\ HistoryBlock(1, "u") = 1 /\ HistoryBlock(1, "v") = 0

\* C15: after k saves in one run block i of each velocity component holds the
\* snapshot of save k-i when i < k and the first snapshot when i >= k.
C15_HistoryOrder ==
    LET k == Len(saves)
    IN k >= 1 =>
          \A i \in 0..(nblocks - 1) : \A c \in Velocity :
             HistoryBlock(i, c) = IF i < k THEN saves[k - i][c] ELSE saves[1][c]

\* after three different saves the two blocks hold the last two snapshots, newest first
C15_Witness ==
    /\ m_intSteps = 2 /\ Len(saves) = 3
    /\ saves[1]["u"] = 1 /\ saves[2]["u"] = 0 /\ saves[3]["u"] = 1
    /\ HistoryBlock(0, "u") = 1 /\ HistoryBlock(1, "u") = 0
    /\ HistoryBlock(0, "v") = 0 /\ HistoryBlock(1, "v") = 1

\* the coefficients of the polynomials in time the history is compared with
PolyCoeffs == {-1, 0, 1}
RECURSIVE Power(_, _)
Power(t, e) == IF e = 0 THEN 1 ELSE t * Power(t, e - 1)
RECURSIVE PolyAt(_, _, _)
PolyAt(coef, e, t) ==
    IF e < 0 THEN 0 ELSE coef[e] * Power(t, e) + PolyAt(coef, e - 1, t)

\* C17: for every offset tau in [0, outerDt) SubStepExtrapoloteField returns the
\* value at time tau of any velocity history whose snapshots at times
\* 0, -outerDt, -2*outerDt, ... are samples of a polynomial in time of degree
\* less than the number of history blocks.
C17_ExtrapolationExact ==
    ExtVel # <<>> =>
       \A i \in 1..nvel : \A coef \in [0..(nblocks - 1) -> PolyCoeffs] :
          (\A b \in 0..(nblocks - 1) :
              HistoryBlock(b, velids[i]) = PolyAt(coef, nblocks - 1, -b * m_timestep))
          => ExtVel[i] = <<PolyAt(coef, nblocks - 1, toff), 1>>

C19_StableStepIsMinimum ==
    cflStatus = "ok" =>
       LET step(e) == Rat(5 * m_cflSafetyFactor,
                          stdVelocity[e] * (ExpOrder[e] - 1) * (ExpOrder[e] - 1))
       IN /\ \E e \in 1..NumElmts : TimeStep = step(e)
          /\ \A e \in 1..NumElmts : ~RatLess(step(e), TimeStep)

\* two elements with different steps, 5 and 5/8: the smaller one was returned
C19_Witness ==
    /\ cflStatus = "ok" /\ m_cflSafetyFactor = 1
    /\ ExpOrder[1] = 2 /\ ExpOrder[2] = 3
    /\ stdVelocity[1] = 1 /\ stdVelocity[2] = 2
    /\ TimeStep = <<5, 8>>

\* C20: GetStdVelocity fails on its precondition when the dimension is below 2
\* and returns no array then; for dimension 2 or 3 it does not fail.
C20_DimensionPrecondition ==
    cflStatus # "none" =>
       /\ m_expdim < 2 => (cflStatus = "abort" /\ stdVelocity = <<>>)
       /\ m_expdim \in {2, 3} => (cflStatus = "ok" /\ Len(stdVelocity) = NumElmts)

\* the estimate was asked for in one dimension and the assertion failed
C20_Witness ==
    /\ m_expdim = 1 /\ cflStatus = "abort" /\ stdVelocity = <<>>

\* the velocity variables v_InitObject needs and no field carries
MissingVelocity ==
    {k \in 0..(m_spacedim - 1) :
        \A j \in 1..Len(fieldVariables) :
            Lower(fieldVariables[j]) # velidNames[k + 1]}

\* C21: when a required velocity variable (u, v, w up to the space dimension) is
\* not among the variable names of the fields, v_InitObject aborts with the
\* "Failed to find field" error and does not go on with an unset velocity index.
C21_MissingFieldAborts ==
    (setupStatus # "none" /\ MissingVelocity # {}) =>
       setupStatus = "Failed to find field"

\* C22: setup raises a tag error exactly when the EQTYPE tag matches no equation
\* type, or the equation type is viscoelastic and the VISELTYPE tag matches no
\* model; with a recognised EQTYPE of a type that is not viscoelastic the
\* "VISELTYPE not found" error is never raised.
C22_TagErrors ==
    LET known == EQTYPE \in 0..(eEquationTypeSize - 1)
        visco == EQTYPE = eUnsteadyViscoElastic
        model == VISELTYPE \in 0..(eEquationViscoElasticTypeSize - 1)
    IN (setupStatus # "none" /\ EQTYPE # eNoEquationType) =>
          /\ setupStatus \in {"EQTYPE not found", "VISELTYPE not found"}
                <=> (~known \/ (visco /\ ~model))
          /\ (known /\ ~visco) => setupStatus # "VISELTYPE not found"

\* rank r has run WriteModalEnergy of step k as far as its own write or its Send
Emitted(r, k) ==
    /\ EnergyDue(k)
    /\ \/ k < rankN[r]
       \/ k = rankN[r] /\ LoopCond(k) /\ rankPc[r] \in {"recv", "send", "steady", "returned"}

\* rank 0 has returned from WriteModalEnergy of step k
EmissionDone(k) ==
    /\ EnergyDue(k)
    /\ \/ k < rankN[0]
       \/ k = rankN[0] /\ LoopCond(k) /\ rankPc[0] \in {"steady", "returned"}

\* the Recv calls and the lines of the emission of step k, in program order
RecvsOf(k) == SelectSeq(recvs, LAMBDA e : e[1] = k)
LinesOf(k) == SelectSeq(mdlRecords, LAMBDA e : e[1] = k)

\* C23: at each energy emission in the decomposed case with P ranks, every rank
\* other than rank 0 makes exactly one Send to rank 0, rank 0 makes exactly P-1
\* Recv calls, one from each other rank in rank order, and writes its own block
\* followed by each received block, so that the mode indices of one emission
\* are 0, 1, 2, ... without a gap.
C23_EmissionProtocol ==
    \A k \in 0..MaxRankSteps :
       /\ \A r \in Ranks \ {0} :
             Len(SelectSeq(sends[r], LAMBDA e : e = k)) = (IF Emitted(r, k) THEN 1 ELSE 0)
       /\ \A j \in 1..Len(RecvsOf(k)) : RecvsOf(k)[j] = <<k, j, k>>
       /\ Len(RecvsOf(k)) <= nproc - 1
       /\ EmissionDone(k) => Len(RecvsOf(k)) = nproc - 1
       /\ \A j \in 1..Len(LinesOf(k)) :
             LinesOf(k)[j] = <<k, j - 1, (j - 1) \div locsize>>
       /\ EmissionDone(k) => Len(LinesOf(k)) = nproc * locsize
       /\ (Emitted(0, k) /\ ~EmissionDone(k)) =>
             Len(LinesOf(k)) = (Len(RecvsOf(k)) + 1) * locsize

\* three ranks have finished the emission of step 0: two receives in rank order
\* and the mode indices 0, 1, 2
C23_Witness ==
    /\ nproc = 3 /\ locsize = 1 /\ EmissionDone(0)
    /\ RecvsOf(0) = <<<<0, 1, 0>>, <<0, 2, 0>>>>
    /\ LinesOf(0) = <<<<0, 0, 0>>, <<0, 1, 1>>, <<0, 2, 2>>>>
    /\ sends[1] = <<0>> /\ sends[2] = <<0>>

\* C24: in a run of several ranks with the energy record and the steady-state
\* test both on, each rank testing its own coefficients, every rank leaves the
\* step loop in the end: no rank waits for ever in a Send or a Recv.
C24_EveryRankLeaves ==
    <>(\A r \in Ranks : rankPc[r] = "returned")

\* C25: whenever an energy record is written the diagnostic log is open: over
\* one setup followed by one or more advance runs the log is opened before the
\* first record of a run and is not closed before the last record of that run.
C25_RecordsWhileOpen ==
    \A i \in 1..Len(mdlLog) :
       /\ mdlLog[i] # "lost"
       /\ mdlLog[i] = "write" =>
             \E o \in 1..(i - 1) :
                mdlLog[o] = "open" /\ \A c \in (o + 1)..(i - 1) : mdlLog[c] # "close"

\* C26 as stated: the finalisation closes the diagnostic output, then transforms
\* the fields back, then calls the Finalise hook of each filter.
C26_CloseThenTransform ==
    \A i \in 1..Len(finLog), j \in 1..Len(finLog) :
       (finLog[i] = "close" /\ finLog[j] \in {"BwdTrans", "SetPhys"}) => i < j

\* C26 as amended: the finalisation transforms or writes the fields back, then
\* closes the diagnostic output when the energy record is on, then calls the
\* Finalise hooks.
C26_TransformThenClose ==
    /\ \A i \in 1..Len(finLog), j \in 1..Len(finLog) :
          /\ (finLog[i] \in {"BwdTrans", "SetPhys"} /\ finLog[j] = "close") => i < j
          /\ (finLog[i] \in {"BwdTrans", "SetPhys", "close"} /\ finLog[j] = "Finalise")
                => i < j
    /\ Returned =>
          finLog = <<IF m_HomogeneousType = "eHomogeneous1D" THEN "BwdTrans" ELSE "SetPhys">>
                   \o (IF m_energysteps > 0 THEN <<"close">> ELSE <<>>)
                   \o <<"Finalise">>

\* a decomposed run with the energy record on has been finalised
C26_Witness ==
    /\ Returned /\ m_energysteps > 0 /\ m_filters > 0
    /\ finLog = <<"BwdTrans", "close", "Finalise">>

\* C27: every history block SubStepExtrapoloteField reads lies inside the history
\* buffer (one block per integrator step) and was written by a save of the
\* current run before the read; every weight index stays inside the 4 entries
\* of l; and no Lagrange denominator is zero when the outer step is not.
C27_ReadsInsideBuffer ==
    ExtVel # <<>> =>
       /\ \A b \in ReadIndices :
             /\ b \in DOMAIN m_previousVelFields
             /\ b \div nvel <= nblocks - 1
             /\ \E k \in 1..Len(saves) :
                   arrays[m_previousVelFields[b]] = saves[k][velids[(b % nvel) + 1]]
       /\ \A w \in WeightIndices : w \in 0..3
       /\ \A w \in WeightIndices : LagrangeDen(w, 0) # 0

\* C28: two evaluations of SubStepAdvection with the same input state and the
\* same extrapolated velocity return the same right-hand side, whatever the
\* physical values of the velocity fields are at each of them
C28_OnlyExtrapolatedVelocity ==
    [][(/\ advLast # <<>>
        /\ advLast' # <<>>
        /\ advLast'.in = advLast.in
        /\ advLast'.vel = advLast.vel) => advLast'.out = advLast.out]_vars

\* the quadrature points of element el in an array over all points: n_points
\* consecutive points per element, in the order of the elements
ElementPoints(el) == {(el - 1) * n_points + i : i \in 0..(n_points - 1)}

\* the largest transformed velocity magnitude over the points of element el
OwnMaximum(inarray, el) ==
    LET magnitudes == {PntVelocity(inarray, el, p) : p \in ElementPoints(el)}
    IN CHOOSE m \in magnitudes : \A k \in magnitudes : k <= m

\* C29: the standard velocity of every element is the largest transformed
\* velocity magnitude over the quadrature points of that element, so it does
\* not change with the velocity at the points of another element
C29_OwnPointsOnly ==
    cflStatus = "ok" =>
       \A el \in 1..NumElmts : stdVelocity[el] = OwnMaximum(velfields, el)

\* C30: with the Fourier decomposition, at the loop test, which is the start of
\* an outer step and the end of the one before, every field is flagged
\* wave-space and its physical-state flag is false, checkpoint or not
C30_WaveSpaceBetweenSteps ==
    (m_HomogeneousType = "eHomogeneous1D" /\ run > 0 /\ pc = "loop") =>
       \A f \in Fields : waveSpace[f] /\ ~physState[f]

\* C31: after every call of SubStepAdvance the inner step used is not larger
\* than the stable step the estimate returned, whatever the outer step and the
\* configured minimum are.
C31_SubStepWithinStable ==
    ncalls > 1 => ~RatLess(stableDt, dt)

\* a stable step of 20 ticks, above the outer step of 10, and a minimum of 5
\* sub-steps: the inner step is 2 ticks
C31_Witness ==
    /\ ncalls > 1 /\ m_timestep = 10 /\ stableDt = <<20, 1>> /\ minsubsteps = 5
    /\ nsubsteps = 5 /\ dt = <<2, 1>>

\* the blocks of one velocity component refer to pairwise distinct arrays
DistinctBlocks(h) ==
    \A k \in 0..(nvel - 1) : \A i \in 0..(nblocks - 1) : \A j \in 0..(nblocks - 1) :
       i # j => h[i * nvel + k] # h[j * nvel + k]

\* C32: the rotation permutes the array handles of the history, so the blocks
\* of one velocity component always refer to pairwise distinct arrays, and a
\* save after the first one of a run leaves in every block above block 0 what
\* the block below it held before the save.
C32_RotationKeepsBlocksApart ==
    [][/\ DistinctBlocks(m_previousVelFields) /\ DistinctBlocks(m_previousVelFields')
       /\ {m_previousVelFields'[b] : b \in DOMAIN m_previousVelFields'}
             = {m_previousVelFields[b] : b \in DOMAIN m_previousVelFields}
       /\ (Len(saves) >= 1 /\ Len(saves') = Len(saves) + 1) =>
             \A k \in 0..(nvel - 1) : \A i \in 1..(nblocks - 1) :
                arrays'[m_previousVelFields'[i * nvel + k]]
                   = arrays[m_previousVelFields[(i - 1) * nvel + k]]
      ]_vars

\* after two saves of different fields the handles of the two blocks have
\* changed places twice and block 1 still holds the first snapshot
C32_Witness ==
    /\ m_intSteps = 2 /\ Len(saves) = 2 /\ saves[1]["u"] # saves[2]["u"]
    /\ m_previousVelFields = [b \in 0..(nblocks * nvel - 1) |-> b]
    /\ arrays[m_previousVelFields[0]] = saves[2]["u"]
    /\ arrays[m_previousVelFields[nvel]] = saves[1]["u"]

\* C33: setup completes for each of the five equation types that advance in
\* time or solve the steady Navier-Stokes equations, and creates the advection
\* operator once: Convective or the AdvectiveType tag for UnsteadyNavierStokes,
\* SteadyNavierStokes and UnsteadyViscoElastic, NoAdvection for UnsteadyStokes,
\* Linearised or the AdvectiveType tag for UnsteadyLinearisedNS.  The setups the
\* VISELTYPE assertion ends (C22) are left aside.
C33_AdvectionSelected ==
    (setupStatus # "none" /\ setupStatus # "VISELTYPE not found") =>
       /\ m_equationType \in {"eUnsteadyNavierStokes", "eSteadyNavierStokes",
                               "eUnsteadyViscoElastic"} =>
             setupStatus = "ok" /\ m_advObject = TagOr("Convective")
       /\ m_equationType = "eUnsteadyStokes" =>
             setupStatus = "ok" /\ m_advObject = "NoAdvection"
       /\ m_equationType = "eUnsteadyLinearisedNS" =>
             setupStatus = "ok" /\ m_advObject = TagOr("Linearised")

\* C34: AdvanceInTime sets the clock to the outer step size on entry, whatever
\* it held before, and adds the outer step size exactly once per executed outer
\* step: at the loop test after k executed steps the time is (k+1) * m_timestep,
\* and the time of the energy record, of the filter Update calls and of the
\* steady-state exit of step n is (n+2) * m_timestep.
C34_ClockCountsSteps ==
    [][/\ (pc = "idle" /\ pc' = "loop") => m_time' = m_timestep
       /\ (run > 0 /\ pc = "loop") => m_time = (n + 1) * m_timestep
       /\ (InRun /\ pc # "clock") => m_time' = m_time
       /\ pc = "clock" => m_time' = m_time + m_timestep
       /\ (pc = "energy" /\ mdlLog' # mdlLog) => m_time = (n + 2) * m_timestep
       /\ (pc = "filter" /\ m_filters > 0) =>
             filterLog' = filterLog \o [i \in 1..m_filters |->
                                          <<"Update", i, (n + 2) * m_timestep>>]
       /\ (exit # "Converged" /\ exit' = "Converged") =>
             m_time' = (n' + 2) * m_timestep
      ]_vars

\* the second invocation with an outer step of 2: step 0 wrote an energy record
\* and updated the filters at time 4, step 1 left the loop converged at time 6
C34_Witness ==
    /\ run = 2 /\ m_timestep = 2 /\ m_energysteps = 1 /\ m_filters > 0
    /\ exit = "Converged" /\ n = 1 /\ m_time = 6
    /\ \E i \in 1..Len(filterLog) : filterLog[i] = <<"Update", 1, 4>>
    /\ \E i \in 1..Len(trace) : trace[i] = <<1, "WriteModalEnergy">>

====
